---- MODULE Spec2Model ----
(***************************************************************************)
(* Nexora insurance hub: the heuristic risk score (_calculate_risk_score)  *)
(* and the template recommendation handler (insurance_assess) of           *)
(* python_services/combined_api_backup_complex.py, with the older copy of  *)
(* both kept in python_services/combined_api.py.                           *)
(*                                                                         *)
(* Money is counted in hundredths of a rupee (paise), so that the two      *)
(* decimals kept by round(x, 2) and by the DECIMAL(15,2) columns are exact *)
(* integers.  Rupees(r) converts a whole-rupee literal of the source.      *)
(***************************************************************************)
EXTENDS Integers, Sequences, FiniteSets, TLC

VARIABLES
    risk,        \* last call of _calculate_risk_score: its arguments and its result
    templates,   \* rows of insurance_templates with is_active, in table order
    assessments, \* rows of business_risk_assessments, in insertion order
    response,    \* last response of insurance_assess, with the request it answers
    invoices,    \* rows of the invoices table, in insertion order
    uploads,     \* the calls of process_invoice: where each stands, and its answer
    dashboard,   \* last response of get_dashboard_credit_score
    solo,        \* the same calls of one user replayed with no other user acting
    snapshot,    \* last FinancialSnapshot built or submitted, and what became of it
    loans,       \* blockchain_loans rows, the escrow contract, the last loan answer
    users,       \* rows of the users table, and the last answer of register / login
    saves        \* concurrent calls that persist a risk assessment: where each stands

insuranceVars == <<risk, templates, assessments, response>>
invoiceVars == <<invoices, uploads, dashboard, solo>>
creditVars == <<snapshot>>
platformVars == <<loans, users, saves>>

vars == <<risk, templates, assessments, response, invoices, uploads, dashboard,
          solo, snapshot, loans, users, saves>>

Rupees(r) == r * 100

Min(a, b) == IF a < b THEN a ELSE b
Max(a, b) == IF a > b THEN a ELSE b

Range(s) == {s[i] : i \in DOMAIN s}

(***************************************************************************)
(* Values of the request's assets dict (Dict[str, Any]): a number, None,   *)
(* or a string float() rejects.                                            *)
(***************************************************************************)
Num(n)  == [kind |-> "num", val |-> n]
NoneVal == [kind |-> "none", val |-> 0]
BadStr  == [kind |-> "str", val |-> 0]

\* One pass of the loop body: float(v) if v is not None else 0; a value
\* float() rejects raises and is skipped by the except branch.
AssetAddend(v) == IF v.kind = "num" THEN v.val ELSE 0

RECURSIVE SumAssets(_, _)
SumAssets(assets, keys) ==
    IF keys = {} THEN 0
    ELSE LET k == CHOOSE x \in keys : TRUE
         IN  AssetAddend(assets[k]) + SumAssets(assets, keys \ {k})

\* asset_total after the for loop over assets.values()
AssetTotal(assets) == SumAssets(assets, DOMAIN assets)

\* AssetPoints with inclusive comparisons (>= for >)
AssetPointsInclusive(asset_total) ==
    IF asset_total >= Rupees(5000000) THEN 25
    ELSE IF asset_total >= Rupees(1000000) THEN 18
    ELSE IF asset_total >= Rupees(250000) THEN 12
    ELSE IF asset_total >= Rupees(50000) THEN 6
    ELSE 0

\* the if/elif chain of the asset weighting
AssetPoints(asset_total) ==
    IF asset_total > Rupees(5000000) THEN 25
    ELSE IF asset_total > Rupees(1000000) THEN 18
    ELSE IF asset_total > Rupees(250000) THEN 12
    ELSE IF asset_total > Rupees(50000) THEN 6
    ELSE 0

\* WorkforcePoints with the points of the two upper brackets exchanged
WorkforcePointsSwapped(workforce_size) ==
    IF workforce_size # 0
    THEN IF workforce_size > 200 THEN 10
         ELSE IF workforce_size > 50 THEN 15
         ELSE IF workforce_size > 10 THEN 5
         ELSE 0
    ELSE 0

\* if workforce_size: followed by the if/elif chain
WorkforcePoints(workforce_size) ==
    IF workforce_size # 0
    THEN IF workforce_size > 200 THEN 15
         ELSE IF workforce_size > 50 THEN 10
         ELSE IF workforce_size > 10 THEN 5
         ELSE 0
    ELSE 0

\* ConcernPoints counting list entries instead of distinct tags
ConcernPointsPerEntry(risk_concerns) == Min(Len(risk_concerns) * 3, 18)

\* ConcernPoints without the cap of 18
ConcernPointsUncapped(risk_concerns) == Cardinality(Range(risk_concerns)) * 3

\* min(len(set(risk_concerns)) * 3, 18)
ConcernPoints(risk_concerns) == Min(Cardinality(Range(risk_concerns)) * 3, 18)

\* max(0, min(100, base))
ClampScore(base) == Max(0, Min(100, base))

\* RiskLevel with a strict comparison on the High threshold
RiskLevelStrictHigh(score) ==
    IF score > 80 THEN "High"
    ELSE IF score >= 65 THEN "Medium"
    ELSE IF score >= 50 THEN "Elevated"
    ELSE "Low"

RiskLevel(score) ==
    IF score >= 80 THEN "High"
    ELSE IF score >= 65 THEN "Medium"
    ELSE IF score >= 50 THEN "Elevated"
    ELSE "Low"

BusinessSize(workforce_size) ==
    IF workforce_size <= 10 THEN "micro"
    ELSE IF workforce_size <= 50 THEN "small"
    ELSE IF workforce_size <= 250 THEN "medium"
    ELSE "large"

\* _calculate_risk_score adding 3 points per distinct concern without the cap
\* and returning the running total without the clamp
UncappedRiskScore(assets, workforce_size, risk_concerns) ==
    LET asset_total == AssetTotal(assets)
        score == 40 + AssetPoints(asset_total) + WorkforcePoints(workforce_size)
                    + Cardinality(Range(risk_concerns)) * 3
    IN  [risk_score    |-> score,
         risk_level    |-> RiskLevel(score),
         asset_total   |-> asset_total,
         business_size |-> BusinessSize(workforce_size)]

_calculate_risk_score(assets, workforce_size, risk_concerns) ==
    LET asset_total == AssetTotal(assets)
        base  == 40 + AssetPoints(asset_total) + WorkforcePoints(workforce_size)
                    + ConcernPoints(risk_concerns)
        score == ClampScore(base)
    IN  [risk_score    |-> score,
         risk_level    |-> RiskLevel(score),
         asset_total   |-> asset_total,
         business_size |-> BusinessSize(workforce_size)]

(***************************************************************************)
(* insurance_assess: filter, estimate, score, fallback, sort, persist.     *)
(* A template row carries the columns the handler reads; the amounts are   *)
(* NOT NULL DECIMAL(15,2) columns.                                         *)
(***************************************************************************)
\* x or d on a number: 0 is falsy
OrElse(x, d) == IF x = 0 THEN d ELSE x

\* req.workforce_size or 0 (workforce_size is Optional[int])
WorkforceOrZero(w) == IF w.kind = "num" THEN w.val ELSE 0

\* (req.preferences or {}).get('focus'): "None" stands for Python's None
NoPreferences == [kind |-> "none", focus |-> "None"]
PreferenceFocus(preferences) ==
    IF preferences.kind = "dict" THEN preferences.focus ELSE "None"

RECURSIVE GCD(_, _)
GCD(a, b) == IF b = 0 THEN a ELSE GCD(b, a % b)

\* n / d for d > 0 rounded to the nearest integer (round(x, 2) on an amount
\* counted in hundredths); an exact half goes to the even neighbour
RoundDiv(n, d) ==
    LET q == n \div d
        r == n % d
    IN  IF 2 * r < d THEN q
        ELSE IF 2 * r > d THEN q + 1
        ELSE IF q % 2 = 0 THEN q ELSE q + 1

\* round(a * (max_cov - min_cov) / (max_cov * 1.2), 2), the fraction
\* 5 (max_cov - min_cov) / (6 max_cov) reduced first so that no product leaves
\* the 32-bit integers
ScaledShare(a, min_cov, max_cov) ==
    LET g == GCD(max_cov - min_cov, max_cov)
        n == 5 * ((max_cov - min_cov) \div g)
        d == 6 * (max_cov \div g)
    IN  (a \div d) * n + RoundDiv((a % d) * n, d)

\* CoverageEstimate without the min(1.0, ...) cap on the asset share
CoverageEstimateUncapped(tpl, asset_total) ==
    LET min_cov == OrElse(tpl.min_coverage_amount, 0)
        max_cov == OrElse(tpl.max_coverage_amount, min_cov)
    IN  IF max_cov > min_cov
        THEN min_cov + ScaledShare(asset_total, min_cov, max_cov)
        ELSE min_cov

\* round(coverage_est, 2); asset_total / (max_cov * 1.2) reaches 1.0 from
\* asset_total = max_cov + max_cov / 5 on
CoverageEstimate(tpl, asset_total) ==
    LET min_cov == OrElse(tpl.min_coverage_amount, 0)
        max_cov == OrElse(tpl.max_coverage_amount, min_cov)
    IN  IF max_cov > min_cov
        THEN IF asset_total >= max_cov + (max_cov + 4) \div 5
             THEN max_cov
             ELSE min_cov + ScaledShare(asset_total, min_cov, max_cov)
        ELSE min_cov

\* PremiumEstimate loading risk_score / 100 instead of risk_score / 200
PremiumEstimatePerHundred(tpl, risk_score) ==
    RoundDiv(OrElse(tpl.base_premium, 0) * (100 + risk_score), 100)

\* round(base_premium * (1 + risk_score / 200), 2)
PremiumEstimate(tpl, risk_score) ==
    RoundDiv(OrElse(tpl.base_premium, 0) * (200 + risk_score), 200)

\* risk_multiplier = 1 + (risk_calc['risk_score'] / 200), as a fraction
RiskMultiplier(risk_score) == [num |-> 200 + risk_score, den |-> 200]

\* round(base_premium * 1.1, 2) of the fallback entry
FallbackPremium(tpl) == RoundDiv(OrElse(tpl.base_premium, 0) * 11, 10)

\* tpl_risks.intersection(req.risk_concerns)
RiskMatchSet(tpl, req) == Range(tpl.risk_categories) \cap Range(req.risk_concerns)

\* MatchScore without the preference-focus term
MatchScoreNoFocus(tpl, req, risk_calc) ==
    (Cardinality(RiskMatchSet(tpl, req)) * 10)
    + (IF req.business_type \in Range(tpl.business_types) THEN 15 ELSE 0)
    + (IF risk_calc.business_size \in {"small", "medium"} THEN 5 ELSE 0)

MatchScore(tpl, req, risk_calc) ==
    (Cardinality(RiskMatchSet(tpl, req)) * 10)
    + (IF req.business_type \in Range(tpl.business_types) THEN 15 ELSE 0)
    + (IF risk_calc.business_size \in {"small", "medium"} THEN 5 ELSE 0)
    + (IF PreferenceFocus(req.preferences) \in Range(tpl.risk_categories)
       THEN 3 ELSE 0)

\* the dict appended for a template that passes the business-type filter
Candidate(tpl, req, risk_calc) ==
    [template_id               |-> tpl.template_id,
     policy_type               |-> tpl.policy_type,
     estimated_coverage_amount |-> CoverageEstimate(tpl, risk_calc.asset_total),
     premium_estimate          |-> PremiumEstimate(tpl, risk_calc.risk_score),
     risk_match                |-> RiskMatchSet(tpl, req),
     match_score               |-> MatchScore(tpl, req, risk_calc),
     reason                    |-> IF RiskMatchSet(tpl, req) # {}
                                   THEN "covers key risks"
                                   ELSE "broad foundational cover"]

\* the dict appended for templates_raw[:1] when nothing passed the filter
Baseline(tpl) ==
    [template_id               |-> tpl.template_id,
     policy_type               |-> tpl.policy_type,
     estimated_coverage_amount |-> OrElse(tpl.min_coverage_amount, 0),
     premium_estimate          |-> FallbackPremium(tpl),
     risk_match                |-> {},
     match_score               |-> 0,
     reason                    |-> "baseline"]

\* Candidates with the risk-concern test enforced: a row that shares no tag
\* with a non-empty concern list is skipped too
RECURSIVE StrictRiskCandidates(_, _, _, _)
StrictRiskCandidates(templates_raw, i, req, risk_calc) ==
    IF i > Len(templates_raw) THEN <<>>
    ELSE LET tpl  == templates_raw[i]
             rest == StrictRiskCandidates(templates_raw, i + 1, req, risk_calc)
         IN  IF req.business_type \notin Range(tpl.business_types)
             THEN rest
             ELSE IF req.risk_concerns # <<>> /\ RiskMatchSet(tpl, req) = {}
             THEN rest
             ELSE <<Candidate(tpl, req, risk_calc)>> \o rest

\* the for loop over templates_raw, from row i on
RECURSIVE Candidates(_, _, _, _)
Candidates(templates_raw, i, req, risk_calc) ==
    IF i > Len(templates_raw) THEN <<>>
    ELSE LET tpl  == templates_raw[i]
             rest == Candidates(templates_raw, i + 1, req, risk_calc)
         IN  IF req.business_type \notin Range(tpl.business_types)
             THEN rest
             ELSE <<Candidate(tpl, req, risk_calc)>> \o rest

\* WithFallback without the fallback block
NoFallback(recommended, templates_raw) == recommended

\* if not recommended and templates_raw: the first row as a baseline
WithFallback(recommended, templates_raw) ==
    IF recommended = <<>> /\ templates_raw # <<>>
    THEN <<Baseline(templates_raw[1])>>
    ELSE recommended

\* key=lambda r: r.get('match_score', 0)
MatchScoreKey(r) == IF "match_score" \in DOMAIN r THEN r.match_score ELSE 0

\* r put into a list already ordered by the key descending, behind the
\* entries of equal key
RECURSIVE InsertByScore(_, _)
InsertByScore(r, sorted) ==
    IF sorted = <<>> THEN <<r>>
    ELSE IF MatchScoreKey(Head(sorted)) >= MatchScoreKey(r)
         THEN <<Head(sorted)>> \o InsertByScore(r, Tail(sorted))
         ELSE <<r>> \o sorted

\* SortByMatchScore leaving the list in table order
UnsortedRecommendations(recommended) == recommended

\* recommended.sort(key=match_score, reverse=True): a stable sort
RECURSIVE SortByMatchScore(_)
SortByMatchScore(recommended) ==
    IF recommended = <<>> THEN <<>>
    ELSE InsertByScore(recommended[Len(recommended)],
                       SortByMatchScore(SubSeq(recommended, 1, Len(recommended) - 1)))

\* the recommendations of one request against a non-empty catalog
Recommend(templates_raw, req, risk_calc) ==
    SortByMatchScore(
        WithFallback(Candidates(templates_raw, 1, req, risk_calc), templates_raw))

\* the score of combined_api.py with inclusive asset brackets (>= for >)
InclusiveBracketsRiskScore(assets, workforce_size, risk_concerns) ==
    LET asset_total == AssetTotal(assets)
        score == ClampScore(40 + AssetPointsInclusive(asset_total)
                               + WorkforcePoints(workforce_size)
                               + ConcernPoints(risk_concerns))
    IN  [risk_score |-> score, risk_level |-> RiskLevel(score),
         asset_total |-> asset_total]

(***************************************************************************)
(* combined_api.py holds an older copy of both functions: the score        *)
(* without business_size, the handler without match_score, fallback, sort  *)
(* and "no_templates" body.                                                *)
(***************************************************************************)
CombinedApi_calculate_risk_score(assets, workforce_size, risk_concerns) ==
    LET asset_total == AssetTotal(assets)
        asset_base ==
            IF asset_total > Rupees(5000000) THEN 40 + 25
            ELSE IF asset_total > Rupees(1000000) THEN 40 + 18
            ELSE IF asset_total > Rupees(250000) THEN 40 + 12
            ELSE IF asset_total > Rupees(50000) THEN 40 + 6
            ELSE 40
        workforce_base ==
            IF workforce_size = 0 THEN asset_base
            ELSE IF workforce_size > 200 THEN asset_base + 15
            ELSE IF workforce_size > 50 THEN asset_base + 10
            ELSE IF workforce_size > 10 THEN asset_base + 5
            ELSE asset_base
        concern_points == Min(Cardinality(Range(risk_concerns)) * 3, 18)
        base  == workforce_base + concern_points
        score == Max(0, Min(100, base))
        level == IF score >= 80 THEN "High"
                 ELSE IF score >= 65 THEN "Medium"
                 ELSE IF score >= 50 THEN "Elevated"
                 ELSE "Low"
    IN  [risk_score |-> score, risk_level |-> level, asset_total |-> asset_total]

\* the dict combined_api.py appends for a template that passes the filter
CombinedApiCandidate(tpl, req, risk_calc) ==
    [template_id               |-> tpl.template_id,
     policy_type               |-> tpl.policy_type,
     estimated_coverage_amount |-> CoverageEstimate(tpl, risk_calc.asset_total),
     premium_estimate          |-> PremiumEstimate(tpl, risk_calc.risk_score),
     risk_match                |-> RiskMatchSet(tpl, req)]

\* the for loop of combined_api.py over templates_raw, from row i on
RECURSIVE CombinedApiCandidates(_, _, _, _)
CombinedApiCandidates(templates_raw, i, req, risk_calc) ==
    IF i > Len(templates_raw) THEN <<>>
    ELSE LET tpl  == templates_raw[i]
             rest == CombinedApiCandidates(templates_raw, i + 1, req, risk_calc)
         IN  IF req.business_type \notin Range(tpl.business_types)
             THEN rest
             ELSE <<CombinedApiCandidate(tpl, req, risk_calc)>> \o rest

\* update({"is_current": False}).eq('user_id', u).eq('is_current', True)
MarkPrevious(rows, u) ==
    [i \in DOMAIN rows |->
        IF rows[i].user_id = u /\ rows[i].is_current
        THEN [rows[i] EXCEPT !.is_current = FALSE]
        ELSE rows[i]]

\* the row inserted into business_risk_assessments; assessment_id is SERIAL
AssessmentRow(rows, u, req, risk_calc, recommended) ==
    [assessment_id        |-> Len(rows) + 1,
     user_id              |-> u,
     risk_score           |-> risk_calc.risk_score,
     risk_level           |-> risk_calc.risk_level,
     identified_risks     |-> req.risk_concerns,
     recommended_policies |-> [i \in DOMAIN recommended |-> recommended[i].policy_type],
     is_current           |-> TRUE]

(***************************************************************************)
(* Inputs of the scoring function.                                         *)
(***************************************************************************)
MaxShortList == 2
MaxDistinctTags == 20

Tag(i) == "concern_" \o ToString(i)

\* the request body of test_insurance.py
TestAssets ==
    [machinery |-> Num(Rupees(250000)), inventory |-> Num(Rupees(150000)),
     equipment |-> Num(Rupees(100000)), building |-> Num(Rupees(500000))]
TestConcerns == <<"cyber", "professional_liability", "employee_welfare", "fire">>
TestWorkforce == 25

AssetValues ==
    {Num(v) : v \in {-Rupees(100000), 0, 1, Rupees(50000), Rupees(250000),
                     Rupees(1000000), Rupees(5000000)}}
    \cup {NoneVal, BadStr}

AssetInputs ==
    UNION {[K -> AssetValues] : K \in {{}, {"machinery"}, {"machinery", "inventory"}}}
    \cup {TestAssets}

WorkforceInputs == {0, 10, 11, TestWorkforce, 50, 51, 200, 201, 250, 251}

\* n distinct tags, and the same tags listed twice
DistinctList(n) == [i \in 1..n |-> Tag(i)]

ConcernInputs ==
    UNION {[1..k -> Range(TestConcerns)] : k \in 0..MaxShortList}
    \cup {DistinctList(n) : n \in 0..MaxDistinctTags}
    \cup {DistinctList(n) \o DistinctList(n) : n \in 1..MaxDistinctTags}
    \cup {TestConcerns}

InitRisk ==
    /\ loans = [called |-> FALSE]
    /\ users = <<>>
    /\ saves = <<>>
    /\ risk \in [assets : AssetInputs, workforce_size : WorkforceInputs,
                 risk_concerns : ConcernInputs, called : {FALSE}]
    /\ templates = <<>>
    /\ assessments = <<>>
    /\ response = [called |-> FALSE]
    /\ invoices = [rows |-> <<>>, serial |-> 0]
    /\ uploads = <<>>
    /\ dashboard = [called |-> FALSE]
    /\ solo = <<>>
    /\ snapshot = [called |-> FALSE]

\* A call of _calculate_risk_score on the drawn arguments.
CalculateRiskScore ==
    /\ ~risk.called
    /\ risk' = [assets |-> risk.assets, workforce_size |-> risk.workforce_size,
                risk_concerns |-> risk.risk_concerns, called |-> TRUE,
                result |-> _calculate_risk_score(risk.assets, risk.workforce_size,
                                                 risk.risk_concerns)]
    /\ UNCHANGED <<templates, assessments, response>>
    /\ UNCHANGED <<invoiceVars, creditVars, platformVars>>

NextRisk == CalculateRiskScore

SpecRisk == InitRisk /\ [][NextRisk]_vars

(***************************************************************************)
(* The insurance_templates catalog and the requests of insurance_assess.   *)
(***************************************************************************)
MaxTemplates == 2

\* rows seeded by setup_insurance_db.py
ProfessionalIndemnity ==
    [template_id |-> 1, policy_type |-> "professional_indemnity",
     business_types |-> <<"services", "consulting", "digital">>,
     min_coverage_amount |-> Rupees(500000), max_coverage_amount |-> Rupees(10000000),
     base_premium |-> Rupees(15000),
     risk_categories |-> <<"professional_liability", "errors_omissions">>]
AssetProtection ==
    [template_id |-> 4, policy_type |-> "asset_protection",
     business_types |-> <<"retail", "manufacturing">>,
     min_coverage_amount |-> Rupees(300000), max_coverage_amount |-> Rupees(15000000),
     base_premium |-> Rupees(10000),
     risk_categories |-> <<"fire", "theft", "burglary", "vandalism">>]
GroupHealth ==
    [template_id |-> 5, policy_type |-> "health",
     business_types |-> <<"services", "manufacturing", "retail", "digital">>,
     min_coverage_amount |-> Rupees(100000), max_coverage_amount |-> Rupees(2000000),
     base_premium |-> Rupees(8000),
     risk_categories |-> <<"employee_welfare", "medical_emergencies">>]
\* a row the table admits (no CHECK relates the two bounds): the upper bound
\* below the lower one, a premium with paise, a tag listed twice
InvertedBounds ==
    [template_id |-> 6, policy_type |-> "cyber_liability",
     business_types |-> <<"digital", "e-commerce", "services">>,
     min_coverage_amount |-> Rupees(200000), max_coverage_amount |-> Rupees(100000),
     base_premium |-> Rupees(1000) - 1,
     risk_categories |-> <<"cyber", "data_breach", "cyber">>]

TemplatePool == {ProfessionalIndemnity, AssetProtection, GroupHealth, InvertedBounds}

\* the catalogs: up to MaxTemplates different rows in any table order
Catalogs ==
    {c \in UNION {[1..k -> TemplatePool] : k \in 0..MaxTemplates} :
        \A i, j \in DOMAIN c : i # j => c[i] # c[j]}

UserIds == {1, 2}

\* the request body of test_insurance.py
TestPreferences == [kind |-> "dict", focus |-> "employee_welfare"]
TestRequest ==
    [business_type |-> "services", assets |-> TestAssets,
     workforce_size |-> Num(TestWorkforce), risk_concerns |-> TestConcerns,
     preferences |-> TestPreferences]

AssessRequests ==
    [business_type : {"services", "retail", "agriculture"},
     assets : {[equipment |-> Num(-Rupees(100000))],
               [equipment |-> NoneVal],
               TestAssets,
               [building |-> Num(Rupees(18000000))]},
     workforce_size : {NoneVal, Num(TestWorkforce)},
     risk_concerns : {<<>>, TestConcerns, <<"fire", "fire">>},
     preferences : {NoPreferences, TestPreferences}]

\* business_risk_assessments before the call: empty, or the row an earlier
\* call of user 1 with the test request left behind
EarlierAssessment ==
    LET risk_calc == _calculate_risk_score(TestAssets, TestWorkforce, TestConcerns)
    IN  AssessmentRow(<<>>, 1, TestRequest, risk_calc,
                      Recommend(<<GroupHealth>>, TestRequest, risk_calc))

\* One request is in flight: response holds it until the handler answers.
InitAssess ==
    /\ loans = [called |-> FALSE]
    /\ users = <<>>
    /\ saves = <<>>
    /\ risk = [called |-> FALSE]
    /\ templates \in Catalogs
    /\ assessments \in {<<>>, <<EarlierAssessment>>}
    /\ response \in [called : {FALSE}, user : UserIds, req : AssessRequests]
    /\ invoices = [rows |-> <<>>, serial |-> 0]
    /\ uploads = <<>>
    /\ dashboard = [called |-> FALSE]
    /\ solo = <<>>
    /\ snapshot = [called |-> FALSE]

\* The select on insurance_templates raises: the "table not found" body, or
\* HTTP 500 for any other error.  Nothing is scored or stored.
InsuranceAssessFetchFailed ==
    /\ ~response.called
    /\ \E error \in {"insurance_templates_not_found", "Database error"} :
           response' = [called |-> TRUE, api |-> "combined_api_backup_complex",
                        user |-> response.user, req |-> response.req,
                        status |-> IF error = "Database error" THEN 500 ELSE 200,
                        success |-> FALSE, error |-> error]
    /\ UNCHANGED <<risk, templates, assessments>>
    /\ UNCHANGED <<invoiceVars, creditVars, platformVars>>

\* if not templates_raw: the "no_templates" body.
InsuranceAssessNoTemplates ==
    /\ ~response.called
    /\ templates = <<>>
    /\ response' = [called |-> TRUE, api |-> "combined_api_backup_complex",
                    user |-> response.user, req |-> response.req,
                    status |-> 200, success |-> FALSE, error |-> "no_templates"]
    /\ UNCHANGED <<risk, templates, assessments>>
    /\ UNCHANGED <<invoiceVars, creditVars, platformVars>>

\* The catalog is not empty: score the request, build and sort the
\* recommendations, try to persist the assessment, return the body.  The
\* persist block swallows its exceptions; the update or the insert may raise.
InsuranceAssessScored ==
    /\ ~response.called
    /\ templates # <<>>
    /\ LET u           == response.user
           req         == response.req
           risk_calc   == _calculate_risk_score(req.assets,
                                                WorkforceOrZero(req.workforce_size),
                                                req.risk_concerns)
           recommended == Recommend(templates, req, risk_calc)
           marked      == MarkPrevious(assessments, u)
           row         == AssessmentRow(marked, u, req, risk_calc, recommended)
       IN  \E persist \in {"ok", "update_raised", "insert_raised"} :
               /\ assessments' =
                      CASE persist = "ok" -> Append(marked, row)
                        [] persist = "insert_raised" -> marked
                        [] persist = "update_raised" -> assessments
               /\ response' =
                      [called |-> TRUE, api |-> "combined_api_backup_complex",
                       user |-> u, req |-> req, status |-> 200,
                       success |-> TRUE, error |-> "",
                       \* the rows the select returned
                       templates_raw |-> templates,
                       \* the SERIAL id, or f"temp_{user}_{time}"
                       assessment_id |-> IF persist = "ok"
                                         THEN [kind |-> "serial", id |-> row.assessment_id]
                                         ELSE [kind |-> "temp", id |-> u],
                       risk_score |-> risk_calc.risk_score,
                       risk_level |-> risk_calc.risk_level,
                       asset_total |-> risk_calc.asset_total,
                       business_size |-> risk_calc.business_size,
                       recommendations |-> recommended,
                       count |-> Len(recommended)]
    /\ UNCHANGED <<risk, templates>>
    /\ UNCHANGED <<invoiceVars, creditVars, platformVars>>

\* insurance_assess of combined_api.py: a failed select leaves templates_raw
\* empty and the handler goes on; the candidates are returned in table
\* order; a failed persist leaves assessment_id None.
CombinedApiInsuranceAssess ==
    /\ ~response.called
    /\ \E fetched \in BOOLEAN, persist \in {"ok", "update_raised", "insert_raised"} :
           LET u             == response.user
               req           == response.req
               templates_raw == IF fetched THEN templates ELSE <<>>
               risk_calc     == CombinedApi_calculate_risk_score(
                                    req.assets, WorkforceOrZero(req.workforce_size),
                                    req.risk_concerns)
               recommended   == CombinedApiCandidates(templates_raw, 1, req, risk_calc)
               marked        == MarkPrevious(assessments, u)
               row           == AssessmentRow(marked, u, req, risk_calc, recommended)
           IN  /\ assessments' =
                      CASE persist = "ok" -> Append(marked, row)
                        [] persist = "insert_raised" -> marked
                        [] persist = "update_raised" -> assessments
               /\ response' =
                      [called |-> TRUE, api |-> "combined_api",
                       user |-> u, req |-> req, status |-> 200,
                       success |-> TRUE, error |-> "",
                       \* the rows the select returned, [] when it raised
                       templates_raw |-> templates_raw,
                       \* the SERIAL id, or None
                       assessment_id |-> IF persist = "ok"
                                         THEN [kind |-> "serial", id |-> row.assessment_id]
                                         ELSE [kind |-> "none", id |-> 0],
                       risk_score |-> risk_calc.risk_score,
                       risk_level |-> risk_calc.risk_level,
                       asset_total |-> risk_calc.asset_total,
                       recommendations |-> recommended,
                       count |-> Len(recommended)]
    /\ UNCHANGED <<risk, templates>>
    /\ UNCHANGED <<invoiceVars, creditVars, platformVars>>

NextAssess ==
    \/ InsuranceAssessFetchFailed
    \/ InsuranceAssessNoTemplates
    \/ InsuranceAssessScored
    \/ CombinedApiInsuranceAssess

SpecAssess == InitAssess /\ [][NextAssess]_vars

(***************************************************************************)
(* SpecRiskCopies: the arguments drawn for SpecRisk are handed to the      *)
(* copy of _calculate_risk_score in each of the two files.                 *)
(***************************************************************************)
BackupComplexCalculateRiskScore ==
    /\ "combined_api_backup_complex" \notin DOMAIN risk
    /\ risk' = ("combined_api_backup_complex" :>
                    _calculate_risk_score(risk.assets, risk.workforce_size,
                                          risk.risk_concerns)) @@ risk
    /\ UNCHANGED <<templates, assessments, response>>
    /\ UNCHANGED <<invoiceVars, creditVars, platformVars>>

CombinedApiCalculateRiskScore ==
    /\ "combined_api" \notin DOMAIN risk
    /\ risk' = ("combined_api" :>
                    CombinedApi_calculate_risk_score(risk.assets, risk.workforce_size,
                                                     risk.risk_concerns)) @@ risk
    /\ UNCHANGED <<templates, assessments, response>>
    /\ UNCHANGED <<invoiceVars, creditVars, platformVars>>

NextRiskCopies ==
    \/ BackupComplexCalculateRiskScore
    \/ CombinedApiCalculateRiskScore

SpecRiskCopies == InitRisk /\ [][NextRiskCopies]_vars

(***************************************************************************)
(* Properties of _calculate_risk_score, checked under SpecRisk.            *)
(***************************************************************************)
Scored == risk.called

\* 1 when the condition holds, else 0
Ind(b) == IF b THEN 1 ELSE 0

\* the bracket tables as the specification words them: each breakpoint that is
\* strictly exceeded adds its step
BracketA(t) ==
    6 * Ind(t > Rupees(50000)) + 6 * Ind(t > Rupees(250000))
    + 6 * Ind(t > Rupees(1000000)) + 7 * Ind(t > Rupees(5000000))
BracketW(w) == 5 * Ind(w > 10) + 5 * Ind(w > 50) + 5 * Ind(w > 200)
DistinctTags(c) == Cardinality({c[i] : i \in 1..Len(c)})
ConcernBonus(c) == IF 3 * DistinctTags(c) > 18 THEN 18 ELSE 3 * DistinctTags(c)

\* C1: for every assets mapping whose total is >= 0, every workforce_size >= 0
\* and every list of risk concerns, the returned risk_score is an integer
\* between 0 and 100.
RiskScoreWithinBounds ==
    (Scored /\ risk.result.asset_total >= 0 /\ risk.workforce_size >= 0)
        => risk.result.risk_score \in 0..100

\* C1 witness: the largest score the brackets allow has been returned for a
\* non-negative total and workforce.
RiskScoreTopReached ==
    /\ Scored
    /\ risk.result.asset_total > Rupees(5000000)
    /\ risk.workforce_size > 200
    /\ DistinctTags(risk.risk_concerns) = MaxDistinctTags
    /\ risk.result.risk_score = 98

\* C2: the score is clamp(40 + A + W + C, 0, 100) with strict bracket
\* comparisons, so a total equal to a breakpoint takes the lower bracket; the
\* request of test_insurance.py (total exactly 1,000,000, workforce 25, four
\* distinct concerns) scores 40 + 12 + 5 + 12 = 69, level Medium.
ScoreIsBracketSum ==
    Scored =>
        LET t   == risk.result.asset_total
            sum == 40 + BracketA(t) + BracketW(risk.workforce_size)
                      + ConcernBonus(risk.risk_concerns)
        IN  /\ risk.result.risk_score =
                   (IF sum < 0 THEN 0 ELSE IF sum > 100 THEN 100 ELSE sum)
            /\ (/\ risk.assets = TestAssets
                /\ risk.workforce_size = TestWorkforce
                /\ risk.risk_concerns = TestConcerns)
               => /\ t = Rupees(1000000)
                  /\ risk.result.risk_score = 69
                  /\ risk.result.risk_level = "Medium"

\* C2 witness: the request of test_insurance.py has been scored.
TestRequestScored ==
    /\ Scored
    /\ risk.assets = TestAssets
    /\ risk.workforce_size = TestWorkforce
    /\ risk.risk_concerns = TestConcerns
    /\ risk.result.risk_score = 69

\* totals and workforce sizes at and just above every breakpoint
ProbeAssets ==
    {[machinery |-> Num(t)] :
        t \in {0, Rupees(50000), Rupees(50000) + 1, Rupees(250000), Rupees(250000) + 1,
               Rupees(1000000), Rupees(1000000) + 1, Rupees(5000000),
               Rupees(5000000) + 1}}

\* C3: with the concern list fixed, the score never decreases when the asset
\* total and the workforce size grow: a1 <= a2 and w1 <= w2 imply
\* score(a1, w1, c) <= score(a2, w2, c).
ScoreMonotone ==
    Scored =>
        \A a2 \in ProbeAssets, w2 \in WorkforceInputs :
            (AssetTotal(a2) >= risk.result.asset_total /\ w2 >= risk.workforce_size)
                => _calculate_risk_score(a2, w2, risk.risk_concerns).risk_score
                       >= risk.result.risk_score

\* C3 witness: a scored call with a workforce in a lower bracket than some
\* larger workforce, whose score is then strictly larger.
LargerInputScoresHigher ==
    /\ Scored
    /\ risk.result.asset_total = Rupees(50000)
    /\ risk.workforce_size = 51
    /\ \E a2 \in ProbeAssets :
           /\ AssetTotal(a2) > risk.result.asset_total
           /\ _calculate_risk_score(a2, 201, risk.risk_concerns).risk_score
                  > risk.result.risk_score

\* C4: the concern list contributes min(3 * number of distinct tags, 18) to the
\* score: never more than 18 (0, 1, 6 and 20 tags give 0, 3, 18 and 18), and
\* listing a tag again leaves the score unchanged.
ConcernBonusCapped ==
    Scored =>
        LET c     == risk.risk_concerns
            bonus == risk.result.risk_score
                       - _calculate_risk_score(risk.assets, risk.workforce_size,
                                               <<>>).risk_score
        IN  /\ bonus = ConcernBonus(c)
            /\ bonus <= 18
            /\ (DistinctTags(c) = Len(c) /\ Len(c) = 0) => bonus = 0
            /\ (DistinctTags(c) = Len(c) /\ Len(c) = 1) => bonus = 3
            /\ (DistinctTags(c) = Len(c) /\ Len(c) = 6) => bonus = 18
            /\ (DistinctTags(c) = Len(c) /\ Len(c) = 20) => bonus = 18
            /\ \A i \in 1..Len(c) :
                   _calculate_risk_score(risk.assets, risk.workforce_size,
                                         Append(c, c[i])).risk_score
                       = risk.result.risk_score

\* C4 witness: a list that repeats tags and stays below the cap has been scored.
RepeatedConcernsScored ==
    /\ Scored
    /\ Len(risk.risk_concerns) = 6
    /\ DistinctTags(risk.risk_concerns) = 3
    /\ risk.result.risk_score
           = 9 + _calculate_risk_score(risk.assets, risk.workforce_size,
                                       <<>>).risk_score

\* C5: the level follows the returned score with exact thresholds: High iff
\* score >= 80, Medium iff 65 <= score < 80, Elevated iff 50 <= score < 65,
\* Low iff score < 50.
LevelThresholds ==
    Scored =>
        LET s == risk.result.risk_score
            l == risk.result.risk_level
        IN  /\ l \in {"High", "Medium", "Elevated", "Low"}
            /\ l = "High" <=> s >= 80
            /\ l = "Medium" <=> (65 <= s /\ s < 80)
            /\ l = "Elevated" <=> (50 <= s /\ s < 65)
            /\ l = "Low" <=> s < 50
            /\ s = 49 => l = "Low"
            /\ s = 50 => l = "Elevated"
            /\ s = 64 => l = "Elevated"
            /\ s = 65 => l = "Medium"
            /\ s = 79 => l = "Medium"
            /\ s = 80 => l = "High"

\* C5 witness: a score exactly on the High threshold has been returned.
HighThresholdScored ==
    /\ Scored
    /\ risk.result.risk_score = 80
    /\ risk.result.risk_level = "High"

\* C30: whatever the arguments, and so for every input with non-negative
\* asset values, the score is 40 plus the three contributions and lies in
\* 40..98, so the clamp to 0..100 leaves it as it is; the level is Low exactly
\* for the scores 40..49; the premium multiplier 1 + risk_score / 200 lies
\* between 1.20 and 1.49.
ScoreWithinReachableRange ==
    Scored =>
        LET sum == 40 + BracketA(risk.result.asset_total)
                      + BracketW(risk.workforce_size)
                      + ConcernBonus(risk.risk_concerns)
            s   == risk.result.risk_score
        IN  /\ s \in 40..98
            /\ s = sum
            /\ (risk.result.risk_level = "Low") <=> (s \in 40..49)
            /\ 100 * RiskMultiplier(s).num >= 120 * RiskMultiplier(s).den
            /\ 100 * RiskMultiplier(s).num <= 149 * RiskMultiplier(s).den

\* C30 witness: non-negative asset values, the top of every bracket table
\* and more than six distinct concerns have been scored at 98, multiplier
\* 1.49.
TopScoreUnclamped ==
    /\ Scored
    /\ \A k \in DOMAIN risk.assets : AssetAddend(risk.assets[k]) >= 0
    /\ risk.result.asset_total > Rupees(5000000)
    /\ risk.workforce_size > 200
    /\ DistinctTags(risk.risk_concerns) > 6
    /\ risk.result.risk_score = 98
    /\ RiskMultiplier(98) = [num |-> 298, den |-> 200]

(***************************************************************************)
(* Properties of the two copies of _calculate_risk_score, checked under    *)
(* SpecRiskCopies.                                                         *)
(***************************************************************************)
ScoredBy(copy) == copy \in DOMAIN risk

\* C22 as stated: every risk score result carries a business_size, and it
\* is micro iff workforce_size <= 10, small iff 10 < workforce_size <= 50,
\* medium iff 50 < workforce_size <= 250, large otherwise.
BusinessSizeInEveryResult ==
    \A copy \in {"combined_api_backup_complex", "combined_api"} :
        ScoredBy(copy) =>
            /\ "business_size" \in DOMAIN risk[copy]
            /\ LET w == risk.workforce_size
                   b == risk[copy].business_size
               IN  /\ (b = "micro") <=> (w <= 10)
                   /\ (b = "small") <=> (10 < w /\ w <= 50)
                   /\ (b = "medium") <=> (50 < w /\ w <= 250)
                   /\ (b = "large") <=> (w > 250)

\* C29: on the same arguments the two copies return the same risk_score,
\* risk_level and asset_total.
CopiesAgree ==
    (ScoredBy("combined_api_backup_complex") /\ ScoredBy("combined_api")) =>
        LET a == risk["combined_api_backup_complex"]
            b == risk["combined_api"]
        IN  /\ a.risk_score = b.risk_score
            /\ a.risk_level = b.risk_level
            /\ a.asset_total = b.asset_total

\* C29 witness: both copies scored a total exactly on an asset breakpoint
\* with a value float() rejects next to it, and both answered.
BothCopiesScoredBreakpoint ==
    /\ ScoredBy("combined_api_backup_complex")
    /\ ScoredBy("combined_api")
    /\ risk["combined_api"].asset_total = Rupees(250000)
    /\ \E k \in DOMAIN risk.assets : risk.assets[k] = BadStr
    /\ risk["combined_api"].risk_score = risk["combined_api_backup_complex"].risk_score

(***************************************************************************)
(* Properties of insurance_assess, checked under SpecAssess.               *)
(***************************************************************************)
\* the handler returned the body that carries recommendations
Assessed == response.called /\ response.success

\* the catalog row a recommendation was built from
TemplateOf(rec) == CHOOSE t \in Range(templates) : t.template_id = rec.template_id

\* the entry of the fallback block, told by its fixed reason text
IsBaseline(rec) == "reason" \in DOMAIN rec /\ rec.reason = "baseline"

\* the response comes from combined_api_backup_complex.py
FromBackupComplex == response.api = "combined_api_backup_complex"

Recs == response.recommendations

\* C6: whenever the fetched catalog is not empty the returned recommendations
\* list is not empty, also when no template lists the business type and no
\* template shares a risk tag with the request.
RecommendationsNeverEmpty ==
    (/\ response.called
     /\ FromBackupComplex
     /\ response.error \notin {"insurance_templates_not_found", "Database error"}
     /\ templates # <<>>)
        => /\ response.success
           /\ Len(Recs) >= 1
           /\ response.count = Len(Recs)

\* C6 witness: a non-empty catalog in which no row lists the business type or
\* shares a tag with the request was answered with the baseline entry.
FallbackReturned ==
    /\ Assessed
    /\ FromBackupComplex
    /\ \A i \in DOMAIN templates :
           /\ response.req.business_type \notin Range(templates[i].business_types)
           /\ Range(templates[i].risk_categories)
                  \cap Range(response.req.risk_concerns) = {}
    /\ Len(Recs) = 1
    /\ IsBaseline(Recs[1])
    /\ Recs[1].template_id = templates[1].template_id

IsRounded(p, base_premium, num, den) ==
    /\ 2 * (den * p - base_premium * num) <= den
    /\ 2 * (base_premium * num - den * p) <= den

\* C8 as stated: every returned recommendation carries
\* premium_estimate = round(base_premium * (1 + risk_score / 200), 2).
PremiumFollowsRiskScore ==
    Assessed =>
        \A i \in DOMAIN Recs :
            IsRounded(Recs[i].premium_estimate, TemplateOf(Recs[i]).base_premium,
                      200 + response.risk_score, 200)

\* C8 amended: every scored (non-baseline) recommendation carries
\* premium_estimate = round(base_premium * (1 + risk_score / 200), 2), a
\* multiplier of exactly 1.0 at risk_score 0 and 1.5 at risk_score 100; the
\* baseline entry carries round(base_premium * 1.1, 2) whatever the score.
PremiumFollowsRiskScoreUnlessBaseline ==
    /\ Assessed =>
           \A i \in DOMAIN Recs :
               LET tpl == TemplateOf(Recs[i])
               IN  IF IsBaseline(Recs[i])
                   THEN IsRounded(Recs[i].premium_estimate, tpl.base_premium, 11, 10)
                   ELSE IsRounded(Recs[i].premium_estimate, tpl.base_premium,
                                  200 + response.risk_score, 200)
    /\ \A i \in DOMAIN templates :
           /\ PremiumEstimate(templates[i], 0) = templates[i].base_premium
           /\ IsRounded(PremiumEstimate(templates[i], 100),
                        templates[i].base_premium, 3, 2)

\* C8 witness: a scored recommendation whose premium was loaded by the risk
\* score and rounded to the hundredth.
PremiumLoadedAndRounded ==
    /\ Assessed
    /\ \E i \in DOMAIN Recs :
           /\ ~IsBaseline(Recs[i])
           /\ Recs[i].premium_estimate > TemplateOf(Recs[i]).base_premium
           /\ 200 * Recs[i].premium_estimate
                  # TemplateOf(Recs[i]).base_premium * (200 + response.risk_score)

MatchScoreFormula ==
    (Assessed /\ FromBackupComplex) =>
        \A i \in DOMAIN Recs :
            ~IsBaseline(Recs[i]) =>
                LET tpl     == TemplateOf(Recs[i])
                    req     == response.req
                    tags    == {tpl.risk_categories[j] : j \in DOMAIN tpl.risk_categories}
                    overlap == {t \in tags : \E k \in DOMAIN req.risk_concerns :
                                                 req.risk_concerns[k] = t}
                    focus   == IF req.preferences.kind = "dict"
                               THEN {req.preferences.focus} ELSE {}
                IN  Recs[i].match_score =
                        10 * Cardinality(overlap)
                        + 15 * Ind(\E j \in DOMAIN tpl.business_types :
                                       tpl.business_types[j] = req.business_type)
                        + 5 * Ind(response.business_size \in {"small", "medium"})
                        + 3 * Ind(focus \cap tags # {})

\* C10 witness: a recommendation that collected all four terms.
FullMatchScored ==
    /\ Assessed
    /\ FromBackupComplex
    /\ \E i \in DOMAIN Recs :
           /\ ~IsBaseline(Recs[i])
           /\ Cardinality(Recs[i].risk_match) = 1
           /\ response.business_size = "small"
           /\ response.req.preferences.kind = "dict"
           /\ Recs[i].match_score = 33

\* the rows the handler iterated over
Fetched == response.templates_raw

\* the positions of the fetched rows whose business_types contains the
\* request's business_type
ListsBusinessType ==
    {k \in DOMAIN Fetched :
        \E j \in DOMAIN Fetched[k].business_types :
            Fetched[k].business_types[j] = response.req.business_type}

\* the positions of the returned entries that are scored candidates
ScoredEntries == {i \in DOMAIN Recs : ~IsBaseline(Recs[i])}

\* C11: a template whose business_types does not contain the request's
\* business_type is never returned as a scored candidate; a template whose
\* business_types contains it is always returned, also when it shares no risk
\* tag with the request; the only entry without a business-type match is the
\* single baseline entry.
BusinessTypeDecides ==
    Assessed =>
        /\ \A i \in ScoredEntries :
               \E k \in ListsBusinessType :
                   Fetched[k].template_id = Recs[i].template_id
        /\ \A k \in ListsBusinessType :
               \E i \in ScoredEntries :
                   Recs[i].template_id = Fetched[k].template_id
        /\ \A i \in DOMAIN Recs :
               IsBaseline(Recs[i]) =>
                   /\ Len(Recs) = 1
                   /\ ListsBusinessType = {}
                   /\ Recs[i].template_id = Fetched[1].template_id

\* C11 witness: of two fetched rows, the one that lists the business type was
\* returned although it shares no tag with the non-empty concern list, and
\* the one that does not list it was left out.
UnrelatedRisksStillReturned ==
    /\ Assessed
    /\ response.req.risk_concerns # <<>>
    /\ Len(Fetched) = 2
    /\ Cardinality(ListsBusinessType) = 1
    /\ Len(Recs) = 1
    /\ ~IsBaseline(Recs[1])
    /\ Recs[1].risk_match = {}

\* C12: when the template catalog is empty the handler answers with the
\* explicit "no_templates" signal and returns no recommendation: the list, when
\* the body carries one, is empty.
EmptyCatalogSignalled ==
    (/\ response.called
     /\ templates = <<>>
     /\ response.error \notin {"insurance_templates_not_found", "Database error"})
        => /\ response.error = "no_templates"
           /\ "recommendations" \in DOMAIN response
                  => response.recommendations = <<>>

(***************************************************************************)
(* The invoice pipeline of python_services/combined_api.py: process_invoice*)
(* scores an uploaded invoice once and stores it; get_dashboard_credit_score*)
(* averages the stored scores.  The invoice extractor (invoice_2.main) and  *)
(* the scorer (credit_score.main) are external: their outputs are inputs    *)
(* here.  Scores are counted in hundredths, the two decimals of the         *)
(* credit_score DECIMAL(5,2) column.                                        *)
(***************************************************************************)
\* RowsOfUser without the eq('user_id', u) filter
RowsOfAnyUser(rows, u) == rows

\* [inv for inv in rows if inv.user_id == u]: select('*').eq('user_id', u)
RECURSIVE RowsOfUser(_, _)
RowsOfUser(rows, u) ==
    IF rows = <<>> THEN <<>>
    ELSE IF Head(rows).user_id = u
         THEN <<Head(rows)>> \o RowsOfUser(Tail(rows), u)
         ELSE RowsOfUser(Tail(rows), u)

\* sum([inv['total_amount'] for inv in rows])
RECURSIVE SumTotalAmount(_)
SumTotalAmount(rows) ==
    IF rows = <<>> THEN 0 ELSE Head(rows).total_amount + SumTotalAmount(Tail(rows))

\* _truncate(val, max_len): str(val)[:max_len]
Truncate(val, max_len) ==
    IF Len(val) > max_len THEN SubSeq(val, 1, max_len) ELSE val

\* the width of the VARCHAR(255) column invoice_number
InvoiceNumberWidth == 255

\* DuplicateAt that finds no row
NeverDuplicate(existing, invoice_number, i) == 0

\* the first existing row with the uploaded invoice number: its position, 0
\* when there is none
RECURSIVE DuplicateAt(_, _, _)
DuplicateAt(existing, invoice_number, i) ==
    IF i > Len(existing) THEN 0
    ELSE IF existing[i].invoice_number = invoice_number THEN i
         ELSE DuplicateAt(existing, invoice_number, i + 1)

\* the body returned for an invoice that is already stored
DuplicateResponse(row, existing) ==
    [status |-> 200, success |-> TRUE, duplicate |-> TRUE,
     id |-> row.id, invoice_number |-> row.invoice_number,
     total_amount |-> row.total_amount,
     credit_score |-> row.credit_score,
     credit_score_analysis |-> row.credit_score_data,
     total_historical_invoices |-> Len(existing),
     total_amount_all_invoices |-> SumTotalAmount(existing)]

\* an HTTPException: no invoice in the body
ErrorResponse(code) == [status |-> code, success |-> FALSE, duplicate |-> FALSE]

\* the FinancialSnapshot process_invoice hands to the scorer; the two rates
\* are the fixed assumptions 0.8 and 0.6, in hundredths
UploadSnapshot(existing, details) ==
    [no_of_invoices         |-> Len(existing) + 1,
     total_amount           |-> SumTotalAmount(existing) + details.total_amount,
     total_amount_pending   |-> details.total_amount,
     total_amount_paid      |-> SumTotalAmount(existing),
     tax                    |-> details.tax_amount,
     extra_charges          |-> details.extra_charges,
     payment_completion_rate |-> 80,
     paid_to_pending_ratio  |-> 60]

\* process_invoice up to the call of the scorer: the extraction is parsed,
\* the user's rows are read, an invoice number already stored is answered
\* from its row, anything else goes to the scorer.
ProcessInvoiceRead(table, u, extraction) ==
    IF extraction.kind # "details"
    THEN [pc |-> "done", user |-> u, extraction |-> extraction,
          response |-> ErrorResponse(400)]
    ELSE LET existing == RowsOfUser(table.rows, u)
             sanitized_invoice_number ==
                 Truncate(extraction.invoice_number, InvoiceNumberWidth)
             dup      == DuplicateAt(existing, sanitized_invoice_number, 1)
         IN  IF dup # 0
             THEN [pc |-> "done", user |-> u, extraction |-> extraction,
                   response |-> DuplicateResponse(existing[dup], existing)]
             ELSE [pc |-> "scoring", user |-> u, extraction |-> extraction,
                   existing |-> existing,
                   credit_score_data |-> UploadSnapshot(existing, extraction)]

\* a key the scorer's JSON object does not carry
Absent == [kind |-> "absent", val |-> 0]

\* the {} that stands in for a missing credit_score_analysis
EmptyAnalysis == [final |-> Absent, breakdown |-> FALSE]

\* What the handler makes of the scorer's return value: json.loads of a
\* string (a JSONDecodeError gives {"credit_score_analysis": {}}), then
\* .get('credit_score_analysis', {}).get('final_weighted_credit_score', 0).
\* A value without .get (a JSON list, number or null; an analysis that is
\* null) raises AttributeError, which leaves the handler as HTTP 500.
ParseScorerResult(out) ==
    CASE out.kind = "raised" ->
             [raised |-> TRUE, credit_score |-> NoneVal,
              credit_score_data |-> EmptyAnalysis]
      [] out.kind = "non_json" ->
             [raised |-> FALSE, credit_score |-> Num(0),
              credit_score_data |-> EmptyAnalysis]
      [] out.kind = "not_object" ->
             [raised |-> TRUE, credit_score |-> NoneVal,
              credit_score_data |-> EmptyAnalysis]
      [] out.kind = "object" /\ out.analysis = "absent" ->
             [raised |-> FALSE, credit_score |-> Num(0),
              credit_score_data |-> EmptyAnalysis]
      [] out.kind = "object" /\ out.analysis = "null" ->
             [raised |-> TRUE, credit_score |-> NoneVal,
              credit_score_data |-> EmptyAnalysis]
      [] out.kind = "object" /\ out.analysis = "dict" ->
             [raised |-> FALSE,
              credit_score |-> IF out.final = Absent THEN Num(0) ELSE out.final,
              credit_score_data |-> [final |-> out.final, breakdown |-> TRUE]]

\* the table before any insert; serial is the last value the id sequence gave
EmptyTable == [rows |-> <<>>, serial |-> 0]

\* ConflictAt of a table without the unique constraint
NoConflictAt(rows, u, invoice_number, i) == 0

\* the row with UNIQUE(invoice_number, user_id) equal to the given pair: its
\* position in the table, 0 when there is none
RECURSIVE ConflictAt(_, _, _, _)
ConflictAt(rows, u, invoice_number, i) ==
    IF i > Len(rows) THEN 0
    ELSE IF rows[i].user_id = u /\ rows[i].invoice_number = invoice_number THEN i
         ELSE ConflictAt(rows, u, invoice_number, i + 1)

\* invoice_db_data with the id the sequence gives it
InvoiceRow(table, call, parsed) ==
    [id                |-> table.serial + 1,
     user_id           |-> call.user,
     invoice_number    |-> Truncate(call.extraction.invoice_number,
                                    InvoiceNumberWidth),
     total_amount      |-> call.extraction.total_amount,
     tax_amount        |-> call.extraction.tax_amount,
     extra_charges     |-> call.extraction.extra_charges,
     status            |-> "pending",
     credit_score      |-> parsed.credit_score,
     credit_score_data |-> parsed.credit_score_data]

\* the body returned for a freshly stored invoice
StoredResponse(row, call, parsed) ==
    [status |-> 200, success |-> TRUE, duplicate |-> FALSE,
     id |-> row.id, invoice_number |-> row.invoice_number,
     total_amount |-> row.total_amount,
     credit_score |-> row.credit_score,
     credit_score_analysis |-> parsed.credit_score_data,
     total_historical_invoices |-> call.credit_score_data.no_of_invoices,
     total_amount_all_invoices |-> call.credit_score_data.total_amount]

\* insert(row): the unique constraint rejects a pair that is already stored
\* and the row that holds it is overwritten instead
UpsertInvoice(table, row) ==
    LET at == ConflictAt(table.rows, row.user_id, row.invoice_number, 1)
    IN  IF at = 0
        THEN [rows |-> Append(table.rows, row), serial |-> table.serial + 1]
        ELSE [rows |-> [table.rows EXCEPT ![at] =
                           [row EXCEPT !.id = table.rows[at].id]],
              serial |-> table.serial + 1]

\* insert(row): a pair that is already stored raises "duplicate key value"
\* and leaves the rows as they are; the id sequence has advanced either way
InsertInvoice(table, row) ==
    IF ConflictAt(table.rows, row.user_id, row.invoice_number, 1) = 0
    THEN [rows |-> Append(table.rows, row), serial |-> table.serial + 1]
    ELSE [rows |-> table.rows, serial |-> table.serial + 1]

\* process_invoice from the scorer's return on: parse it, insert the row,
\* answer.  An insert that finds the pair stored meanwhile answers from the
\* stored row; any other failure ends as HTTP 500.
ProcessInvoiceStore(table, call, scorer, db) ==
    LET parsed   == ParseScorerResult(scorer)
        row      == InvoiceRow(table, call, parsed)
        conflict == ConflictAt(table.rows, row.user_id, row.invoice_number, 1)
        done(r)  == [pc |-> "done", user |-> call.user,
                     extraction |-> call.extraction, response |-> r]
    IN  IF parsed.raised \/ db = "raised"
        THEN [table |-> table, call |-> done(ErrorResponse(500))]
        ELSE IF conflict # 0
             THEN [table |-> InsertInvoice(table, row),
                   call  |-> done(DuplicateResponse(table.rows[conflict],
                                                    call.existing))]
             ELSE [table |-> InsertInvoice(table, row),
                   call  |-> done(StoredResponse(row, call, parsed))]

\* sum of the stored scores, in hundredths
RECURSIVE SumScores(_)
SumScores(scores) ==
    IF scores = <<>> THEN 0 ELSE Head(scores) + SumScores(Tail(scores))

\* [inv['credit_score'] for inv in invoices if inv['credit_score'] is not None]
RECURSIVE CreditScores(_)
CreditScores(rows) ==
    IF rows = <<>> THEN <<>>
    ELSE IF Head(rows).credit_score.kind = "num"
         THEN <<Head(rows).credit_score.val>> \o CreditScores(Tail(rows))
         ELSE CreditScores(Tail(rows))

\* the category of a mean sum / count, compared without rounding
Category(sum, count) ==
    IF sum >= 8000 * count THEN "Excellent"
    ELSE IF sum >= 7000 * count THEN "Good"
    ELSE IF sum >= 6000 * count THEN "Fair"
    ELSE "Poor"

\* round(mean_credit_score, 1), in hundredths
RoundedMean(sum, count) == 10 * RoundDiv(sum, 10 * count)

\* DashboardCreditScore dividing by the number of invoices
DashboardOverAllInvoices(table, u, db) ==
    LET rows          == RowsOfUser(table.rows, u)
        credit_scores == CreditScores(rows)
    IN  IF db = "raised"
        THEN [called |-> TRUE, user |-> u, credit_score |-> 0,
              category |-> "Error", total_invoices |-> 0, error |-> TRUE,
              individual_scores |-> <<>>]
        ELSE IF rows = <<>> \/ credit_scores = <<>>
        THEN [called |-> TRUE, user |-> u, credit_score |-> 0,
              category |-> "No Data", total_invoices |-> Len(rows),
              error |-> FALSE, individual_scores |-> <<>>]
        ELSE [called |-> TRUE, user |-> u,
              credit_score |-> RoundedMean(SumScores(credit_scores), Len(rows)),
              category |-> Category(SumScores(credit_scores), Len(rows)),
              total_invoices |-> Len(rows), error |-> FALSE,
              individual_scores |-> credit_scores]

\* get_dashboard_credit_score: the mean of the user's stored scores that are
\* not null, its category, and the mean rounded to one decimal
DashboardCreditScore(table, u, db) ==
    LET rows          == RowsOfUser(table.rows, u)
        credit_scores == CreditScores(rows)
    IN  IF db = "raised"
        THEN [called |-> TRUE, user |-> u, credit_score |-> 0,
              category |-> "Error", total_invoices |-> 0, error |-> TRUE,
              individual_scores |-> <<>>]
        ELSE IF rows = <<>> \/ credit_scores = <<>>
        THEN [called |-> TRUE, user |-> u, credit_score |-> 0,
              category |-> "No Data", total_invoices |-> Len(rows),
              error |-> FALSE, individual_scores |-> <<>>]
        ELSE [called |-> TRUE, user |-> u,
              credit_score |-> RoundedMean(SumScores(credit_scores),
                                           Len(credit_scores)),
              category |-> Category(SumScores(credit_scores), Len(credit_scores)),
              total_invoices |-> Len(rows), error |-> FALSE,
              individual_scores |-> credit_scores]

(***************************************************************************)
(* Calls of process_invoice and get_dashboard_credit_score by two users.   *)
(* A call of process_invoice awaits the scorer in a thread, so other calls *)
(* run between its read of the table and its insert.                       *)
(***************************************************************************)
MaxUploads == 2

\* what the extractor found on the uploaded file, or that it found nothing
PaperInvoice ==
    [kind |-> "details", invoice_number |-> "INV-1",
     total_amount |-> Rupees(1000), tax_amount |-> Rupees(180), extra_charges |-> 0]
ZeroInvoice ==
    [kind |-> "details", invoice_number |-> "INV-2",
     total_amount |-> 0, tax_amount |-> 0, extra_charges |-> 0]
NoInvoiceDetails ==
    [kind |-> "no_details", invoice_number |-> "INV-UNKNOWN",
     total_amount |-> 0, tax_amount |-> 0, extra_charges |-> 0]

\* a text of exactly InvoiceNumberWidth characters
FullWidthNumber ==
    LET n1   == "9"
        n2   == n1 \o n1
        n4   == n2 \o n2
        n8   == n4 \o n4
        n16  == n8 \o n8
        n32  == n16 \o n16
        n64  == n32 \o n32
        n128 == n64 \o n64
    IN  n128 \o n64 \o n32 \o n16 \o n8 \o n4 \o n2 \o n1

\* two invoice numbers of 256 characters that differ in the last one only
LongInvoice ==
    [kind |-> "details", invoice_number |-> FullWidthNumber \o "A",
     total_amount |-> Rupees(1000), tax_amount |-> Rupees(180), extra_charges |-> 0]
LongerInvoice ==
    [kind |-> "details", invoice_number |-> FullWidthNumber \o "B",
     total_amount |-> Rupees(1000), tax_amount |-> Rupees(180), extra_charges |-> 0]

Extractions == {PaperInvoice, ZeroInvoice, NoInvoiceDetails, LongInvoice, LongerInvoice}

\* return values of the scorer: a well-formed analysis, an analysis without
\* its score or with a null score, an object without analysis or with a null
\* one, text that is no JSON, JSON that is no object; or it raises
ScorerScore == 7996

ScorerOutputs ==
    {[kind |-> "object", analysis |-> "dict", final |-> f] :
        f \in {Num(ScorerScore), Absent, NoneVal}}
    \cup {[kind |-> "object", analysis |-> a, final |-> Absent] :
              a \in {"absent", "null"}}
    \cup {[kind |-> k, analysis |-> "absent", final |-> Absent] :
              k \in {"non_json", "not_object", "raised"}}

\* the user whose calls are replayed alone in solo
Observed == CHOOSE u \in UserIds : \A v \in UserIds : u <= v

IdleCall == [pc |-> "idle"]

\* no dashboard answer is on its way
NoAnswer == [called |-> FALSE]

\* a finished call once its answer has been delivered
Delivered(call) ==
    IF call.pc = "done" THEN [pc |-> "done", user |-> call.user] ELSE call

\* the calls with call i set to c and the answers of the others delivered
Proceed(calls, i, c) ==
    [j \in DOMAIN calls |-> IF j = i THEN c ELSE Delivered(calls[j])]

InitInvoices ==
    /\ loans = [called |-> FALSE]
    /\ users = <<>>
    /\ saves = <<>>
    /\ risk = [called |-> FALSE]
    /\ templates = <<>>
    /\ assessments = <<>>
    /\ response = [called |-> FALSE]
    /\ invoices = EmptyTable
    /\ uploads = [i \in 1..MaxUploads |-> IdleCall]
    /\ dashboard = NoAnswer
    /\ solo = [invoices |-> EmptyTable,
               uploads |-> [i \in 1..MaxUploads |-> IdleCall],
               dashboard |-> NoAnswer]
    /\ snapshot = [called |-> FALSE]

\* A user uploads a file: the handler runs up to the await of the scorer.
\* uploads and dashboard keep an answer until the next step of any handler.
ProcessInvoiceReads(i) ==
    /\ uploads[i].pc = "idle"
    /\ i > 1 => uploads[i - 1].pc # "idle"
    /\ \E u \in UserIds, extraction \in Extractions :
           /\ uploads' = Proceed(uploads, i,
                                 ProcessInvoiceRead(invoices, u, extraction))
           /\ solo' = [invoices  |-> solo.invoices,
                       uploads   |->
                           Proceed(solo.uploads, i,
                                   IF u = Observed
                                   THEN ProcessInvoiceRead(solo.invoices, u, extraction)
                                   ELSE solo.uploads[i]),
                       dashboard |-> NoAnswer]
    /\ dashboard' = NoAnswer
    /\ UNCHANGED invoices
    /\ UNCHANGED <<insuranceVars, creditVars, platformVars>>

\* The scorer returns to a waiting call: the handler inserts and answers.
ProcessInvoiceStores(i) ==
    /\ uploads[i].pc = "scoring"
    /\ \E scorer \in ScorerOutputs, db \in {"ok", "raised"} :
           LET real  == ProcessInvoiceStore(invoices, uploads[i], scorer, db)
               alone == IF solo.uploads[i].pc = "scoring"
                        THEN ProcessInvoiceStore(solo.invoices, solo.uploads[i],
                                                 scorer, db)
                        ELSE [table |-> solo.invoices, call |-> solo.uploads[i]]
           IN  /\ invoices' = real.table
               /\ uploads' = Proceed(uploads, i,
                                     [scorer |-> scorer, db |-> db] @@ real.call)
               /\ solo' = [invoices  |-> alone.table,
                           uploads   |->
                               Proceed(solo.uploads, i,
                                       IF solo.uploads[i].pc = "scoring"
                                       THEN [scorer |-> scorer, db |-> db] @@ alone.call
                                       ELSE solo.uploads[i]),
                           dashboard |-> NoAnswer]
    /\ dashboard' = NoAnswer
    /\ UNCHANGED <<insuranceVars, creditVars, platformVars>>

\* A user opens the dashboard.
GetDashboardCreditScore(u) ==
    /\ \E db \in {"ok", "raised"} :
           /\ dashboard' = DashboardCreditScore(invoices, u, db)
           /\ solo' = [invoices  |-> solo.invoices,
                       uploads   |-> [j \in DOMAIN solo.uploads |->
                                         Delivered(solo.uploads[j])],
                       dashboard |-> IF u = Observed
                                     THEN DashboardCreditScore(solo.invoices, u, db)
                                     ELSE NoAnswer]
    /\ uploads' = [j \in DOMAIN uploads |-> Delivered(uploads[j])]
    /\ UNCHANGED invoices
    /\ UNCHANGED <<insuranceVars, creditVars, platformVars>>

NextInvoices ==
    \/ \E i \in 1..MaxUploads : ProcessInvoiceReads(i)
    \/ \E i \in 1..MaxUploads : ProcessInvoiceStores(i)
    \/ \E u \in UserIds : GetDashboardCreditScore(u)

SpecInvoices == InitInvoices /\ [][NextInvoices]_vars

(***************************************************************************)
(* get_dashboard_credit_score read against tables of stored invoices.      *)
(***************************************************************************)
MaxRows == 3

\* scores process_invoice has stored: null, the fallback 0, and values on and
\* next to the category thresholds
StoredScores ==
    {NoneVal} \cup {Num(v) : v \in {0, 5999, 6000, 6998, 7000, 7996, 8000}}

\* the row process_invoice stored as the i-th insert
StoredRow(i, u, score) ==
    [id                |-> i,
     user_id           |-> u,
     invoice_number    |-> "INV-" \o ToString(i),
     total_amount      |-> Rupees(1000),
     tax_amount        |-> Rupees(180),
     extra_charges     |-> 0,
     status            |-> "pending",
     credit_score      |-> score,
     credit_score_data |-> IF score = Num(0) THEN EmptyAnalysis
                           ELSE [final |-> score, breakdown |-> TRUE]]

StoredTables ==
    UNION {{[rows |-> [i \in 1..n |-> StoredRow(i, owner[i], score[i])],
             serial |-> n] :
               owner \in [1..n -> UserIds], score \in [1..n -> StoredScores]} :
           n \in 0..MaxRows}

InitDashboard ==
    /\ loans = [called |-> FALSE]
    /\ users = <<>>
    /\ saves = <<>>
    /\ risk = [called |-> FALSE]
    /\ templates = <<>>
    /\ assessments = <<>>
    /\ response = [called |-> FALSE]
    /\ invoices \in StoredTables
    /\ uploads = [i \in 1..MaxUploads |-> IdleCall]
    /\ dashboard = NoAnswer
    /\ solo = [invoices |-> EmptyTable,
               uploads |-> [i \in 1..MaxUploads |-> IdleCall],
               dashboard |-> NoAnswer]
    /\ snapshot = [called |-> FALSE]

NextDashboard == \E u \in UserIds : GetDashboardCreditScore(u)

SpecDashboard == InitDashboard /\ [][NextDashboard]_vars

(***************************************************************************)
(* Properties of get_dashboard_credit_score, checked under SpecDashboard.  *)
(***************************************************************************)
\* the dashboard answered from the rows it read
Answered == dashboard.called /\ ~dashboard.error

\* the positions of the asking user's rows, and of those that carry a score
OwnRows == {i \in DOMAIN invoices.rows : invoices.rows[i].user_id = dashboard.user}
OwnScoredRows == {i \in OwnRows : invoices.rows[i].credit_score.kind = "num"}

\* the sum of the scores stored at the given positions, in hundredths
RECURSIVE StoredSum(_)
StoredSum(S) ==
    IF S = {} THEN 0
    ELSE LET i == CHOOSE x \in S : TRUE
         IN  invoices.rows[i].credit_score.val + StoredSum(S \ {i})

\* C13 as stated: the returned credit_score is exactly the sum of the stored
\* scores divided by the number of the user's invoices, and it is 0 with
\* category "No Data" when the user has no invoices.
MeanIsExact ==
    Answered =>
        IF OwnRows = {}
        THEN dashboard.credit_score = 0 /\ dashboard.category = "No Data"
        ELSE dashboard.credit_score * Cardinality(OwnRows) = StoredSum(OwnScoredRows)

\* C13 amended: the returned credit_score is the sum of the user's stored
\* scores that are not null divided by the number of those scores, rounded to
\* one decimal; it is 0 with category "No Data" when the user has no invoice
\* or none with a score, and 0 with category "Error" when the read failed.
MeanIsRoundedOverScoredRows ==
    /\ Answered =>
           LET n   == Cardinality(OwnScoredRows)
               sum == StoredSum(OwnScoredRows)
               r   == dashboard.credit_score
           IN  IF n = 0
               THEN r = 0 /\ dashboard.category = "No Data"
               ELSE /\ r % 10 = 0
                    /\ 2 * (r * n - sum) <= 10 * n
                    /\ 2 * (sum - r * n) <= 10 * n
                    /\ dashboard.category # "No Data"
    /\ (dashboard.called /\ dashboard.error) =>
           dashboard.credit_score = 0 /\ dashboard.category = "Error"

\* C13 witness: the user has an invoice without a score next to scored ones,
\* and the answer is their mean after rounding moved it.
RoundedMeanAnswered ==
    /\ Answered
    /\ Cardinality(OwnScoredRows) = 2
    /\ Cardinality(OwnRows) = 3
    /\ dashboard.credit_score * 2 # StoredSum(OwnScoredRows)
    /\ dashboard.total_invoices = 3

\* the threshold bucket of a score in hundredths
Bucket(score) ==
    IF score >= 8000 THEN "Excellent"
    ELSE IF score >= 7000 THEN "Good"
    ELSE IF score >= 6000 THEN "Fair"
    ELSE "Poor"

\* C14: when at least one score exists, the returned category is the bucket
\* of the credit_score returned in the same response: Excellent iff
\* credit_score >= 80, Good iff 70 <= credit_score < 80, Fair iff
\* 60 <= credit_score < 70, Poor otherwise.
CategoryMatchesReturnedScore ==
    (Answered /\ OwnScoredRows # {}) =>
        dashboard.category = Bucket(dashboard.credit_score)

(***************************************************************************)
(* Properties of process_invoice, checked under SpecInvoices.              *)
(***************************************************************************)
\* C15: once process_invoice has stored a row, no later step of process_invoice
\* (a new invoice, a duplicate upload) or of the dashboard changes the row's
\* credit_score or credit_score_data: every step keeps every stored row.
ScoreWrittenOnce ==
    [][\A i \in DOMAIN invoices.rows :
           /\ i \in DOMAIN invoices'.rows
           /\ invoices'.rows[i].id = invoices.rows[i].id
           /\ invoices'.rows[i].credit_score = invoices.rows[i].credit_score
           /\ invoices'.rows[i].credit_score_data
                  = invoices.rows[i].credit_score_data]_vars

\* the call has just answered, after the scorer ran for it
ScoredCall(i) == uploads[i].pc = "done" /\ "scorer" \in DOMAIN uploads[i]

\* C15 witness: a call whose scorer returned one score found its invoice
\* stored meanwhile with another, and answered with the stored score.
RescoredDuplicateKeptStoredScore ==
    \E i \in DOMAIN uploads :
        /\ ScoredCall(i)
        /\ uploads[i].response.duplicate
        /\ uploads[i].scorer.final = Num(ScorerScore)
        /\ uploads[i].response.credit_score = Num(0)
        /\ \E k \in DOMAIN invoices.rows :
               /\ invoices.rows[k].id = uploads[i].response.id
               /\ invoices.rows[k].credit_score = Num(0)

\* the scorer's return value is no JSON, or is JSON without
\* credit_score_analysis or without final_weighted_credit_score in it
Malformed(out) ==
    \/ out.kind \in {"non_json", "not_object"}
    \/ out.kind = "object" /\ out.analysis = "absent"
    \/ out.kind = "object" /\ out.analysis = "dict" /\ out.final = Absent

\* C16: when the scorer returns malformed output and the insert does not
\* fail, process_invoice returns success, and the invoice it stored carries
\* the numeric credit_score 0.
MalformedScoreStoredAsZero ==
    \A i \in DOMAIN uploads :
        (ScoredCall(i) /\ Malformed(uploads[i].scorer) /\ uploads[i].db = "ok") =>
            /\ uploads[i].response.success
            /\ ~uploads[i].response.duplicate =>
                   /\ uploads[i].response.credit_score = Num(0)
                   /\ \E k \in DOMAIN invoices.rows :
                          /\ invoices.rows[k].id = uploads[i].response.id
                          /\ invoices.rows[k].credit_score = Num(0)

\* a row, a list of rows and a call without the ids the sequence gave
WithoutId(row) == [row EXCEPT !.id = 0]
WithoutIds(rows) == [k \in DOMAIN rows |-> WithoutId(rows[k])]
CallWithoutIds(call) ==
    IF call.pc = "scoring"
    THEN [call EXCEPT !.existing = WithoutIds(call.existing)]
    ELSE IF "response" \in DOMAIN call /\ call.response.success
    THEN [call EXCEPT !.response.id = 0]
    ELSE call

\* a call of the observed user
OfObserved(call) == call.pc # "idle" /\ call.user = Observed

\* C20 as stated: whatever the other user does, and however it is
\* interleaved, the observed user's process_invoice results, stored rows and
\* dashboard result are those of the run in which the other user does nothing.
ResultsIdentical ==
    /\ \A i \in DOMAIN uploads :
           OfObserved(uploads[i]) => uploads[i] = solo.uploads[i]
    /\ RowsOfUser(invoices.rows, Observed) = solo.invoices.rows
    /\ (dashboard.called /\ dashboard.user = Observed) => dashboard = solo.dashboard

\* C20 amended: the same, apart from the id of a stored row, which comes from
\* one sequence shared by all users.
ResultsIdenticalApartFromIds ==
    /\ \A i \in DOMAIN uploads :
           OfObserved(uploads[i]) =>
               CallWithoutIds(uploads[i]) = CallWithoutIds(solo.uploads[i])
    /\ WithoutIds(RowsOfUser(invoices.rows, Observed))
           = WithoutIds(solo.invoices.rows)
    /\ (dashboard.called /\ dashboard.user = Observed) => dashboard = solo.dashboard

\* C20 witness: the other user stored the same invoice number while the
\* observed user's call was waiting for the scorer, and the observed user's
\* invoice was stored all the same, under a later id.
StoredBehindOtherUser ==
    \E i \in DOMAIN uploads :
        /\ OfObserved(uploads[i])
        /\ ScoredCall(i)
        /\ ~uploads[i].response.duplicate
        /\ uploads[i].response.success
        /\ uploads[i].response.id = 2
        /\ solo.uploads[i].response.id = 1
        /\ \E k \in DOMAIN invoices.rows :
               /\ invoices.rows[k].user_id # Observed
               /\ invoices.rows[k].invoice_number = uploads[i].response.invoice_number

(***************************************************************************)
(* The FinancialSnapshot builders: get_user_credit_score of                *)
(* blockchain_loan_api.py and the cumulative snapshots of                  *)
(* process_invoice_with_credit_score in supabase_api.py and                *)
(* combined_api_old.py.  Amounts are in paise; a rate is the fraction      *)
(* num/den and is never evaluated.  tax and extra_charges are plain sums   *)
(* that no rate depends on and are left out.                               *)
(***************************************************************************)
Ratio(n, d) == [num |-> n, den |-> d]

\* what Python's / raises on a zero divisor
ZeroDivisionError == [num |-> 0, den |-> 0]

Divide(n, d) == IF d = 0 THEN ZeroDivisionError ELSE Ratio(n, d)

\* sum(inv['total_amount'] for inv in invoices if inv['status'] in statuses)
RECURSIVE SumWithStatus(_, _)
SumWithStatus(rows, statuses) ==
    IF rows = <<>> THEN 0
    ELSE (IF Head(rows).status \in statuses THEN Head(rows).total_amount ELSE 0)
         + SumWithStatus(Tail(rows), statuses)

RECURSIVE CountWithStatus(_, _)
CountWithStatus(rows, statuses) ==
    IF rows = <<>> THEN 0
    ELSE (IF Head(rows).status \in statuses THEN 1 ELSE 0)
         + CountWithStatus(Tail(rows), statuses)

InvoiceStatuses == {"paid", "pending", "processed"}

FinancialSnapshot(n, total, pending, paid, rate, ratio) ==
    [no_of_invoices |-> n, total_amount |-> total,
     total_amount_pending |-> pending, total_amount_paid |-> paid,
     payment_completion_rate |-> rate, paid_to_pending_ratio |-> ratio]

\* a handler that built a snapshot, one that raised while building it, and
\* one that returned before building any
Built(fd) == [raised |-> FALSE, built |-> TRUE, financial_data |-> fd]
NotBuilt  == [raised |-> FALSE, built |-> FALSE]
Raised(fd) == [raised |-> TRUE, built |-> FALSE]

Close(fd) ==
    IF fd.payment_completion_rate = ZeroDivisionError
       \/ fd.paid_to_pending_ratio = ZeroDivisionError
    THEN Raised(fd) ELSE Built(fd)

\* blockchain_loan_api.py get_user_credit_score
BlockchainSnapshot(rows) ==
    IF rows = <<>> THEN NotBuilt
    ELSE LET total_amount  == SumWithStatus(rows, InvoiceStatuses)
             total_paid    == SumWithStatus(rows, {"paid"})
             total_pending == SumWithStatus(rows, {"pending", "processed"})
         IN  Close(FinancialSnapshot(Len(rows), total_amount, total_pending, total_paid,
                 IF total_amount > 0 THEN Divide(total_paid, total_amount)
                                     ELSE Ratio(7, 10),
                 IF total_pending > 0 THEN Divide(total_paid, total_pending)
                                      ELSE Ratio(5, 10)))

\* the row process_invoice_with_credit_score stores before it reads all rows
PendingRow(amount) == [total_amount |-> amount, status |-> "pending"]

\* supabase_api.py process_invoice_with_credit_score, cumulative snapshot
SupabaseSnapshot(rows, current_amount) ==
    LET invoices_     == Append(rows, PendingRow(current_amount))
        total_amount  == SumWithStatus(invoices_, InvoiceStatuses)
        total_paid    == SumWithStatus(invoices_, {"paid"})
        total_pending == SumWithStatus(invoices_, {"pending", "processed"})
    IN  Close(FinancialSnapshot(Len(invoices_), total_amount, total_pending, total_paid,
            IF total_amount > 0 THEN Divide(total_paid, total_amount)
                                ELSE Ratio(0, 10),
            IF total_pending > 0 THEN Divide(total_paid, total_pending)
                                 ELSE Ratio(10, 10)))

\* combined_api_old.py get_historical_financial_data, demo mode:
\* base_payment_rate = 0.6 + (hash(user_id) % 100) / 100 * 0.3
DemoHistoricalData(rows, user_hash) ==
    IF rows = <<>>
    THEN FinancialSnapshot(0, 0, 0, 0, Ratio(7, 10), Ratio(233, 100))
    ELSE LET total_amount  == SumWithStatus(rows, InvoiceStatuses)
             base_payment_rate == Ratio(600 + 3 * user_hash, 1000)
             total_paid    == IF total_amount > 0
                              THEN (total_amount * base_payment_rate.num)
                                       \div base_payment_rate.den
                              ELSE 0
             total_pending == total_amount - total_paid
         IN  FinancialSnapshot(Len(rows), total_amount, total_pending, total_paid,
                 base_payment_rate,
                 IF total_pending > 0 THEN Divide(total_paid, total_pending)
                                      ELSE Ratio(4, 1))

\* the defaults of database mode for a user without rows or a failed read
DefaultHistoricalData ==
    FinancialSnapshot(1, 0, 0, 0, Ratio(8, 10), Ratio(4, 1))

\* combined_api_old.py get_historical_financial_data, database mode
DatabaseHistoricalData(rows, read) ==
    IF read = "raised" \/ rows = <<>> THEN DefaultHistoricalData
    ELSE LET total_invoices == Len(rows)
             total_amount  == SumWithStatus(rows, InvoiceStatuses)
             total_paid    == SumWithStatus(rows, {"paid"})
             total_pending == SumWithStatus(rows, {"pending"})
         IN  FinancialSnapshot(total_invoices, total_amount, total_pending, total_paid,
                 IF total_invoices > 0
                 THEN Divide(CountWithStatus(rows, {"paid"}), total_invoices)
                 ELSE Ratio(8, 10),
                 IF total_pending > 0 THEN Divide(total_paid, total_pending)
                 ELSE IF total_paid > 0 THEN Ratio(4, 1) ELSE Ratio(2, 1))

\* combined_api_old.py process_invoice_with_credit_score: the snapshot of the
\* history with the current invoice added
OldCombinedSnapshot(historical_data, current_amount) ==
    LET total_amount_with_current  == historical_data.total_amount + current_amount
        total_pending_with_current == historical_data.total_amount_pending + current_amount
    IN  Close(FinancialSnapshot(historical_data.no_of_invoices + 1,
            total_amount_with_current, total_pending_with_current,
            historical_data.total_amount_paid,
            IF total_amount_with_current > 0
            THEN Divide(historical_data.total_amount_paid, total_amount_with_current)
            ELSE historical_data.payment_completion_rate,
            IF total_pending_with_current > 0
            THEN Divide(historical_data.total_amount_paid, total_pending_with_current)
            ELSE historical_data.paid_to_pending_ratio))

(***************************************************************************)
(* SpecSnapshot: one user's stored invoices and the invoice being          *)
(* uploaded are drawn at the start; each builder runs once on them.        *)
(***************************************************************************)
MaxStored == 2

StoredAmounts == {0, Rupees(1000)}

\* hash(user_id) % 100 differs from process to process
UserHashes == {0, 50, 99}

StoredInvoices ==
    UNION {[1..n -> [total_amount : StoredAmounts, status : InvoiceStatuses]] :
               n \in 0..MaxStored}

InitSnapshot ==
    /\ loans = [called |-> FALSE]
    /\ users = <<>>
    /\ saves = <<>>
    /\ risk = [called |-> FALSE]
    /\ templates = <<>>
    /\ assessments = <<>>
    /\ response = [called |-> FALSE]
    /\ invoices = EmptyTable
    /\ uploads = <<>>
    /\ dashboard = [called |-> FALSE]
    /\ solo = <<>>
    /\ \E rows \in StoredInvoices, amount \in StoredAmounts, h \in UserHashes :
           snapshot = [called |-> FALSE, stored |-> rows, current |-> amount,
                       user_hash |-> h]

Submitted(builder, result) ==
    [called |-> TRUE, builder |-> builder, stored |-> snapshot.stored,
     current |-> snapshot.current, user_hash |-> snapshot.user_hash,
     result |-> result]

GetUserCreditScore ==
    /\ ~snapshot.called
    /\ snapshot' = Submitted("blockchain_loan_api", BlockchainSnapshot(snapshot.stored))
    /\ UNCHANGED <<insuranceVars, invoiceVars, platformVars>>

SupabaseProcessInvoice ==
    /\ ~snapshot.called
    /\ snapshot' = Submitted("supabase_api",
                             SupabaseSnapshot(snapshot.stored, snapshot.current))
    /\ UNCHANGED <<insuranceVars, invoiceVars, platformVars>>

\* demo mode: store_invoice_data appends the invoice before the history is read
OldProcessInvoiceDemo ==
    /\ ~snapshot.called
    /\ snapshot' = Submitted("combined_api_old_demo",
           OldCombinedSnapshot(
               DemoHistoricalData(Append(snapshot.stored, PendingRow(snapshot.current)),
                                  snapshot.user_hash),
               snapshot.current))
    /\ UNCHANGED <<insuranceVars, invoiceVars, platformVars>>

\* database mode: the insert of store_invoice_data may fail (it returns False
\* and the handler goes on), and so may the read of the history
OldProcessInvoiceDatabase ==
    /\ ~snapshot.called
    /\ \E stored_ok \in BOOLEAN, read \in {"ok", "raised"} :
           snapshot' = Submitted("combined_api_old_database",
               OldCombinedSnapshot(
                   DatabaseHistoricalData(
                       IF stored_ok
                       THEN Append(snapshot.stored, PendingRow(snapshot.current))
                       ELSE snapshot.stored,
                       read),
                   snapshot.current))
    /\ UNCHANGED <<insuranceVars, invoiceVars, platformVars>>

NextSnapshot ==
    \/ GetUserCreditScore
    \/ SupabaseProcessInvoice
    \/ OldProcessInvoiceDemo
    \/ OldProcessInvoiceDatabase

SpecSnapshot == InitSnapshot /\ [][NextSnapshot]_vars

(***************************************************************************)
(* Properties of the snapshot builders, checked under SpecSnapshot.        *)
(***************************************************************************)
\* a snapshot was built from invoices whose total_amount sums to 0
BuiltFromZeroTotal ==
    /\ snapshot.called
    /\ snapshot.result.built
    /\ snapshot.result.financial_data.total_amount = 0

\* the literal defaults the builders give paid_to_pending_ratio
DefaultRatios == {Ratio(5, 10), Ratio(10, 10), Ratio(4, 1), Ratio(2, 1), Ratio(233, 100)}

\* C17 as stated: building a snapshot never raises a division by zero; a
\* snapshot built from invoices whose total_amount sums to 0 carries
\* payment_completion_rate 0.7; a snapshot whose total pending is 0 carries a
\* default paid_to_pending_ratio and not a quotient.
ZeroTotalYieldsDefaultRate ==
    snapshot.called =>
        /\ ~snapshot.result.raised
        /\ BuiltFromZeroTotal =>
               snapshot.result.financial_data.payment_completion_rate = Ratio(7, 10)
        /\ (snapshot.result.built
            /\ snapshot.result.financial_data.total_amount_pending = 0) =>
               snapshot.result.financial_data.paid_to_pending_ratio \in DefaultRatios

(***************************************************************************)
(* calculate_credit_score_api of credit_score_api.py, combined_api_old.py  *)
(* and supabase_api.py: what becomes of a submitted FinancialData before   *)
(* it reaches the scorer.  Amounts are in paise; GROQ_API_KEY is set.      *)
(***************************************************************************)
Abs(x) == IF x < 0 THEN -x ELSE x

\* Field(..., ge=0) on the three amounts
FieldsValid(fd) ==
    /\ fd.total_amount >= 0
    /\ fd.total_amount_pending >= 0
    /\ fd.total_amount_paid >= 0

Rejected(code) == [status |-> code, scored |-> FALSE]

\* the scorer got financial_dict; its output decides between 200 and 500
PassedToScorer(financial_dict, scorer) ==
    [status |-> IF scorer = "ok" THEN 200 ELSE 500, scored |-> TRUE,
     financial_dict |-> financial_dict]

\* credit_score_api.py: a mismatch above 0.01 is answered with HTTP 400
CreditScoreApiCalculate(fd, scorer) ==
    IF ~FieldsValid(fd) THEN Rejected(422)
    ELSE IF Abs(fd.total_amount_pending + fd.total_amount_paid - fd.total_amount) > 1
         THEN Rejected(400)
         ELSE PassedToScorer(fd, scorer)

\* combined_api_old.py: a mismatch above 10% of the total is adjusted when
\* one of the two parts is 0
Reconcile(fd) ==
    LET total_reported == fd.total_amount_pending + fd.total_amount_paid
        total_expected == fd.total_amount
    IN  IF 10 * Abs(total_reported - total_expected) > total_expected
        THEN IF fd.total_amount_pending = 0
             THEN [fd EXCEPT !.total_amount_pending =
                                 total_expected - fd.total_amount_paid]
             ELSE IF fd.total_amount_paid = 0
                  THEN [fd EXCEPT !.total_amount_paid =
                                 Max(0, total_expected - fd.total_amount_pending)]
                  ELSE fd
        ELSE fd

OldCalculate(fd, scorer) ==
    IF ~FieldsValid(fd) THEN Rejected(422) ELSE PassedToScorer(Reconcile(fd), scorer)

\* supabase_api.py: no constraint on the fields and no comparison
SupabaseCalculate(fd, scorer) == PassedToScorer(fd, scorer)

(***************************************************************************)
(* SpecReconcile: one FinancialData is drawn at the start and submitted    *)
(* once to one of the three endpoints.                                     *)
(***************************************************************************)
SubmittedAmounts ==
    {-Rupees(1), 0, 1, Rupees(80), Rupees(95), Rupees(100), Rupees(150)}

ScorerAnswers == {"ok", "non_json"}

InitReconcile ==
    /\ loans = [called |-> FALSE]
    /\ users = <<>>
    /\ saves = <<>>
    /\ risk = [called |-> FALSE]
    /\ templates = <<>>
    /\ assessments = <<>>
    /\ response = [called |-> FALSE]
    /\ invoices = EmptyTable
    /\ uploads = <<>>
    /\ dashboard = [called |-> FALSE]
    /\ solo = <<>>
    /\ \E fd \in [total_amount : SubmittedAmounts,
                  total_amount_pending : SubmittedAmounts,
                  total_amount_paid : SubmittedAmounts] :
           snapshot = [called |-> FALSE, submitted |-> fd]

CreditScoreApiCalculateCreditScore ==
    /\ ~snapshot.called
    /\ \E scorer \in ScorerAnswers :
           snapshot' = [called |-> TRUE, endpoint |-> "credit_score_api",
                        submitted |-> snapshot.submitted,
                        result |-> CreditScoreApiCalculate(snapshot.submitted, scorer)]
    /\ UNCHANGED <<insuranceVars, invoiceVars, platformVars>>

OldCalculateCreditScore ==
    /\ ~snapshot.called
    /\ \E scorer \in ScorerAnswers :
           snapshot' = [called |-> TRUE, endpoint |-> "combined_api_old",
                        submitted |-> snapshot.submitted,
                        result |-> OldCalculate(snapshot.submitted, scorer)]
    /\ UNCHANGED <<insuranceVars, invoiceVars, platformVars>>

SupabaseCalculateCreditScore ==
    /\ ~snapshot.called
    /\ \E scorer \in ScorerAnswers :
           snapshot' = [called |-> TRUE, endpoint |-> "supabase_api",
                        submitted |-> snapshot.submitted,
                        result |-> SupabaseCalculate(snapshot.submitted, scorer)]
    /\ UNCHANGED <<insuranceVars, invoiceVars, platformVars>>

NextReconcile ==
    \/ CreditScoreApiCalculateCreditScore
    \/ OldCalculateCreditScore
    \/ SupabaseCalculateCreditScore

SpecReconcile == InitReconcile /\ [][NextReconcile]_vars

(***************************************************************************)
(* Properties of calculate_credit_score_api, checked under SpecReconcile.  *)
(***************************************************************************)
\* a well-formed snapshot whose parts do not add up to its total was submitted
MismatchSubmitted ==
    /\ snapshot.called
    /\ FieldsValid(snapshot.submitted)
    /\ snapshot.submitted.total_amount_pending + snapshot.submitted.total_amount_paid
           # snapshot.submitted.total_amount

\* pending + paid = total within 0.01, neither part negative
Reconciled(fd) ==
    /\ Abs(fd.total_amount_pending + fd.total_amount_paid - fd.total_amount) <= 1
    /\ fd.total_amount_pending >= 0
    /\ fd.total_amount_paid >= 0

\* C18 as stated: a submitted snapshot whose pending + paid differs from its
\* total is not refused; it reaches the scorer corrected, with pending + paid
\* = total within tolerance and neither part negative.
MismatchIsCorrected ==
    MismatchSubmitted =>
        /\ snapshot.result.scored
        /\ Reconciled(snapshot.result.financial_dict)

(***************************************************************************)
(* The request body of POST /insurance/assess as it arrives, and what the  *)
(* InsuranceAssessmentRequest model makes of it before insurance_assess    *)
(* runs.  A field of the body is absent, null, or a value of some JSON     *)
(* type.                                                                   *)
(***************************************************************************)
Text(s)  == [kind |-> "text", text |-> s]
Dict(f)  == [kind |-> "dict", items |-> f]
List(q)  == [kind |-> "list", items |-> q]

\* business_type: str is required and not Optional
BusinessTypeValid(v) == v.kind = "text"

\* assets: Dict[str, Any] with default_factory=dict; the values are Any
AssetsValid(v) == v.kind \in {"dict", "absent"}

\* workforce_size: Optional[int] = 0
WorkforceSizeValid(v) == v.kind \in {"num", "none", "absent"}

\* risk_concerns: List[str] with default_factory=list
RiskConcernsValid(v) == v.kind \in {"list", "absent"}

BodyValid(body) ==
    /\ BusinessTypeValid(body.business_type)
    /\ AssetsValid(body.assets)
    /\ WorkforceSizeValid(body.workforce_size)
    /\ RiskConcernsValid(body.risk_concerns)

\* the InsuranceAssessmentRequest of a valid body, defaults filled in
ParsedRequest(body) ==
    [business_type |-> body.business_type.text,
     assets |-> IF body.assets.kind = "dict" THEN body.assets.items ELSE <<>>,
     workforce_size |-> IF body.workforce_size.kind = "absent" THEN Num(0)
                        ELSE body.workforce_size,
     risk_concerns |-> IF body.risk_concerns.kind = "list"
                       THEN body.risk_concerns.items ELSE <<>>,
     preferences |-> body.preferences]

(***************************************************************************)
(* SpecValidate: one body is in flight; it is validated, and a valid one   *)
(* is handed to insurance_assess of either file.                           *)
(***************************************************************************)
Bodies ==
    [business_type : {Text("services"), Absent, NoneVal},
     assets : {Dict(TestAssets), Dict([equipment |-> BadStr]),
               Dict([machinery |-> Num(Rupees(250000)), inventory |-> BadStr]),
               Dict([equipment |-> NoneVal]), Absent, BadStr},
     workforce_size : {Num(TestWorkforce), NoneVal, Absent, BadStr},
     risk_concerns : {List(TestConcerns), Absent, BadStr},
     preferences : {NoPreferences, TestPreferences}]

InitValidate ==
    /\ loans = [called |-> FALSE]
    /\ users = <<>>
    /\ saves = <<>>
    /\ risk = [called |-> FALSE]
    /\ templates \in {<<>>, <<GroupHealth>>}
    /\ assessments = <<>>
    /\ response \in [called : {FALSE}, user : UserIds, body : Bodies]
    /\ invoices = EmptyTable
    /\ uploads = <<>>
    /\ dashboard = [called |-> FALSE]
    /\ solo = <<>>
    /\ snapshot = [called |-> FALSE]

\* The body is validated; an invalid one is answered with HTTP 422 and the
\* handler is not called.
ValidateBody ==
    /\ ~response.called
    /\ "body" \in DOMAIN response
    /\ response' =
           IF BodyValid(response.body)
           THEN [called |-> FALSE, user |-> response.user,
                 req |-> ParsedRequest(response.body)]
           ELSE [called |-> TRUE, user |-> response.user, body |-> response.body,
                 status |-> 422, success |-> FALSE, error |-> "validation"]
    /\ UNCHANGED <<risk, templates, assessments>>
    /\ UNCHANGED <<invoiceVars, creditVars, platformVars>>

NextValidate ==
    \/ ValidateBody
    \/ ("req" \in DOMAIN response /\ NextAssess)

SpecValidate == InitValidate /\ [][NextValidate]_vars

(***************************************************************************)
(* Properties of the request validation, checked under SpecValidate.       *)
(***************************************************************************)
\* an answered request whose body lacked the required field, or carried an
\* asset value that is a string no float() accepts
MissingRequiredField ==
    /\ response.called
    /\ "body" \in DOMAIN response
    /\ response.body.business_type.kind = "absent"

NonNumericAsset ==
    /\ response.called
    /\ "req" \in DOMAIN response
    /\ \E k \in DOMAIN response.req.assets : response.req.assets[k] = BadStr

\* C19 as stated: a request with a non-numeric asset value or without a
\* required field is answered with a validation error, and no risk score is
\* produced or persisted for it.
MalformedRequestRejected ==
    (MissingRequiredField \/ NonNumericAsset) =>
        /\ response.status = 422
        /\ "risk_score" \notin DOMAIN response
        /\ assessments = <<>>

(***************************************************************************)
(* Properties of concurrent process_invoice calls, checked under           *)
(* SpecInvoices.                                                           *)
(***************************************************************************)
\* call i has just stored its invoice and its answer is still on its way
JustStored(i) ==
    /\ uploads[i].pc = "done"
    /\ "response" \in DOMAIN uploads[i]
    /\ uploads[i].response.success
    /\ ~uploads[i].response.duplicate

\* C21 as stated: the snapshot a call passed to the scorer is the one of a
\* sequential execution of the calls, in which a call that stores its invoice
\* has counted every invoice of its user stored before it: the no_of_invoices
\* and total_amount it passed are the number and the sum of the user's rows
\* once its own row is stored.
SnapshotOfSequentialExecution ==
    \A i \in DOMAIN uploads :
        JustStored(i) =>
            LET own == RowsOfUser(invoices.rows, uploads[i].user)
            IN  /\ uploads[i].response.total_historical_invoices = Len(own)
                /\ uploads[i].response.total_amount_all_invoices = SumTotalAmount(own)

\* an invoice number as the column holds it
First255(number) == IF Len(number) > 255 THEN SubSeq(number, 1, 255) ELSE number

\* the rows of user u that carry the invoice number
StoredAs(u, number) ==
    {k \in DOMAIN invoices.rows :
        /\ invoices.rows[k].user_id = u
        /\ invoices.rows[k].invoice_number = number}

\* the answer is the stored row k, marked as a duplicate
AnsweredFromRow(r, k) ==
    /\ r.status = 200
    /\ r.success
    /\ r.duplicate
    /\ r.id = invoices.rows[k].id
    /\ r.credit_score = invoices.rows[k].credit_score

\* a user never has two rows with one invoice number
OneRowPerNumber ==
    \A j, k \in DOMAIN invoices.rows :
        (/\ invoices.rows[j].user_id = invoices.rows[k].user_id
         /\ invoices.rows[j].invoice_number = invoices.rows[k].invoice_number)
            => j = k

\* call i starts with an invoice whose truncated number is stored for its user
DuplicateUploaded(i) ==
    /\ uploads[i].pc = "idle"
    /\ uploads'[i].pc # "idle"
    /\ uploads'[i].extraction.kind = "details"
    /\ StoredAs(uploads'[i].user, First255(uploads'[i].extraction.invoice_number)) # {}

\* C24: an upload whose invoice number, cut to 255 characters, is stored for
\* the same user is answered at once from the stored row, with its stored
\* credit_score and duplicate = True: the call never waits for the scorer and
\* the invoices table stays as it is; no user ever has two rows with the same
\* invoice number.
DuplicateUploadIdempotent ==
    /\ []OneRowPerNumber
    /\ [][\A i \in DOMAIN uploads :
              DuplicateUploaded(i) =>
                  /\ invoices' = invoices
                  /\ uploads'[i].pc = "done"
                  /\ \E k \in StoredAs(uploads'[i].user,
                                       First255(uploads'[i].extraction.invoice_number)) :
                         AnsweredFromRow(uploads'[i].response, k)]_vars

\* C24 witness: an invoice number of 256 characters was answered as a duplicate
\* of the row that holds its first 255, without a call of the scorer.
TruncatedDuplicateAnswered ==
    \E i \in DOMAIN uploads :
        /\ uploads[i].pc = "done"
        /\ "response" \in DOMAIN uploads[i]
        /\ "scorer" \notin DOMAIN uploads[i]
        /\ uploads[i].response.duplicate
        /\ Len(uploads[i].extraction.invoice_number) = 256
        /\ uploads[i].response.invoice_number # uploads[i].extraction.invoice_number
        /\ Len(invoices.rows) = 1

\* the insert of call i meets a row stored since the call read the table
LosingInsert(i) ==
    /\ uploads[i].pc = "scoring"
    /\ uploads'[i].pc = "done"
    /\ ~ParseScorerResult(uploads'[i].scorer).raised
    /\ uploads'[i].db = "ok"
    /\ StoredAs(uploads[i].user, First255(uploads[i].extraction.invoice_number)) # {}

\* C25: when two calls for the same user and the same invoice number have
\* both passed the duplicate check, one row is stored; the call whose insert
\* comes second meets the unique constraint, stores nothing and answers with
\* success, duplicate = True and the stored row of the first.
RaceLoserAnswersWinnersRow ==
    /\ []OneRowPerNumber
    /\ [][\A i \in DOMAIN uploads :
              LosingInsert(i) =>
                  /\ invoices'.rows = invoices.rows
                  /\ \E k \in StoredAs(uploads[i].user,
                                       First255(uploads[i].extraction.invoice_number)) :
                         /\ uploads'[i].response.status = 200
                         /\ uploads'[i].response.success
                         /\ uploads'[i].response.duplicate
                         /\ uploads'[i].response.id = invoices.rows[k].id
                         /\ uploads'[i].response.credit_score
                                = invoices.rows[k].credit_score]_vars

\* C25 witness: a call that had passed the duplicate check and got a
\* well-formed score was answered as a duplicate of the one stored row.
RaceLoserAnswered ==
    \E i \in DOMAIN uploads :
        /\ uploads[i].pc = "done"
        /\ "response" \in DOMAIN uploads[i]
        /\ "scorer" \in DOMAIN uploads[i]
        /\ uploads[i].scorer.final = Num(ScorerScore)
        /\ uploads[i].response.duplicate
        /\ Len(invoices.rows) = 1
        /\ uploads[i].response.id = invoices.rows[1].id
        /\ invoices.serial = 2

\* ---------------------------------------------------------------------------
\* Blockchain loans: blockchain_loan_api.py
\*
\* loans.web3     what the module start left in w3 / contract / admin_account
\* loans.invoices rows of the invoices table that get_user_credit_score reads
\* loans.chain    what the escrow contract holds for each loan id
\* loans.rows     rows of the blockchain_loans table
\* loans.sent     transactions sent through w3.eth.send_raw_transaction
\* loans.answer   what the last call answered; loans.served counts the calls
\* Amounts are in thousandths of an ether, scorer scores in hundredths.
\* ---------------------------------------------------------------------------

MaxLoanCalls == 2

LoanIds == {0, 1}

LoanAmounts == {1000, 5000}

\* w3, contract and admin_account after the module start: the connection
\* failed, it succeeded without PRIVATE_KEY, it succeeded with PRIVATE_KEY
Web3States == {"unavailable", "no_admin_account", "admin_account"}

\* the top of the scorer's final weighted score, in hundredths
FinalWeightedScoreMax == 10000

\* what calculate_credit_fn hands back: nothing, a string that is not JSON,
\* or an analysis whose final_weighted_credit_score is missing, None, a text
\* or a number of the scorer's range; the function may also raise
ScorerScores ==
    {Absent, NoneVal, BadStr}
        \cup {Num(v) : v \in {0, 5999, 6000, FinalWeightedScoreMax}}

CreditResults ==
    {[kind |-> "raises", score |-> Absent], [kind |-> "none", score |-> Absent],
     [kind |-> "non_json", score |-> Absent]}
        \cup [kind : {"json", "dict"}, score : ScorerScores]

\* int(credit_data.get('credit_score_analysis', {}).get('final_weighted_credit_score', 0))
\* inside the bare except: int() truncates a number, the default is 0, and
\* None or a text make int() raise, which the except turns into 0
IntOfScore(score) ==
    IF score.kind = "num" THEN score.val \div 100 ELSE 0

\* select('*').eq('user_id', int(user_id))
InvoicesOf(rows, user_id) ==
    SelectSeq(rows, LAMBDA inv : inv.user_id = user_id)

get_user_credit_score(rows, user_id, credit_result) ==
    LET built == BlockchainSnapshot(InvoicesOf(rows, user_id))
    IN  IF ~built.built THEN 0
        ELSE IF credit_result.kind \in {"raises", "none", "non_json"} THEN 0
        ELSE IntOfScore(credit_result.score)

\* a gate on the scorer's own scale
BelowSixty(credit_score) == credit_score < 60

\* the credit gate of request_blockchain_loan
BelowMinimumRequirement(credit_score) == credit_score < 600

\* amount_eth > escrow_balance_eth * 0.8
ExceedsEscrowShare(amount_eth, escrow_balance_eth) ==
    10 * amount_eth > 8 * escrow_balance_eth

LoanAnswer(endpoint, current_user, status, detail) ==
    [endpoint |-> endpoint, current_user |-> current_user,
     status |-> status, detail |-> detail]

\* the record store_loan_request_db inserts
LoanRecord(user_id, amount_eth, credit_score) ==
    [user_id |-> user_id, amount_eth |-> amount_eth, credit_score |-> credit_score,
     status |-> "pending", blockchain_loan_id |-> NoneVal,
     approved |-> FALSE, approved_by |-> NoneVal]

SentTransaction(function, current_user, argument) ==
    [function |-> function, current_user |-> current_user, argument |-> argument]

LoanInvoices ==
    UNION {[1..n -> [user_id : UserIds, total_amount : StoredAmounts,
                     status : {"paid", "pending"}]] : n \in 0..MaxStored}

InitLoans ==
    /\ loans \in [web3 : Web3States, invoices : LoanInvoices,
                  chain : [LoanIds -> {"requested", "approved"}],
                  rows : {<<>>}, sent : {<<>>}, served : {0},
                  answer : {[endpoint |-> "none"]}]
    /\ users = <<>>
    /\ saves = <<>>
    /\ risk = [called |-> FALSE]
    /\ templates = <<>>
    /\ assessments = <<>>
    /\ response = [called |-> FALSE]
    /\ invoices = EmptyTable
    /\ uploads = <<>>
    /\ dashboard = [called |-> FALSE]
    /\ solo = <<>>
    /\ snapshot = [called |-> FALSE]

\* request_blockchain_loan without a connection: the 500 before the try
RequestLoanUnavailable ==
    /\ loans.served < MaxLoanCalls
    /\ loans.web3 = "unavailable"
    /\ \E current_user \in UserIds :
         loans' = [loans EXCEPT
                     !.served = @ + 1,
                     !.answer = LoanAnswer("request_blockchain_loan", current_user,
                                           500, "Blockchain connection not available")]
    /\ UNCHANGED <<insuranceVars, invoiceVars, creditVars, users, saves>>

\* request_blockchain_loan with a connection. The scorer's answer, the
\* contract's maximum loan and escrow balance, and whether sending the
\* transaction and inserting the row succeed are the environment's.
RequestBlockchainLoan ==
    /\ loans.served < MaxLoanCalls
    /\ loans.web3 # "unavailable"
    /\ \E current_user \in UserIds, amount_eth \in LoanAmounts,
          credit_result \in CreditResults,
          max_loan_eth \in LoanAmounts, escrow_balance_eth \in LoanAmounts,
          tx_mined \in BOOLEAN, row_inserted \in BOOLEAN :
         LET credit_score ==
                 get_user_credit_score(loans.invoices, current_user, credit_result)
             answer(status, detail) ==
                 LoanAnswer("request_blockchain_loan", current_user, status, detail)
             served == [loans EXCEPT !.served = @ + 1]
             requestLoan == SentTransaction("requestLoan", current_user, amount_eth)
         IN  IF BelowMinimumRequirement(credit_score)
             THEN loans' = [served EXCEPT
                     !.answer = ("credit_score" :> credit_score)
                                    @@ answer(400, "below minimum requirement")]
             ELSE IF amount_eth > max_loan_eth
             THEN loans' = [served EXCEPT
                     !.answer = answer(400, "exceeds maximum allowed")]
             ELSE IF ExceedsEscrowShare(amount_eth, escrow_balance_eth)
             THEN loans' = [served EXCEPT
                     !.answer = answer(400, "Insufficient escrow balance")]
             ELSE IF loans.web3 = "no_admin_account"
             THEN loans' = [served EXCEPT
                     !.answer = answer(200, "Transaction data prepared")]
             ELSE IF ~tx_mined
             THEN loans' = [served EXCEPT
                     !.answer = answer(500, "Failed to process loan request")]
             ELSE IF ~row_inserted
             THEN loans' = [served EXCEPT
                     !.sent = Append(@, requestLoan),
                     !.answer = answer(500, "Failed to store loan request")]
             ELSE loans' = [served EXCEPT
                     !.sent = Append(@, requestLoan),
                     !.rows = Append(@, LoanRecord(current_user, amount_eth,
                                                   credit_score)),
                     !.answer = answer(200, "Loan request submitted")]
    /\ UNCHANGED <<insuranceVars, invoiceVars, creditVars, users, saves>>

\* the update of approve_blockchain_loan: eq('blockchain_loan_id', loan_id)
MarkApproved(rows, loan_id, current_user) ==
    [k \in 1..Len(rows) |->
        IF rows[k].blockchain_loan_id = Num(loan_id)
        THEN [rows[k] EXCEPT !.approved = TRUE, !.approved_by = Num(current_user)]
        ELSE rows[k]]

\* approve_blockchain_loan without a connection or without the admin account
ApproveLoanUnavailable ==
    /\ loans.served < MaxLoanCalls
    /\ loans.web3 # "admin_account"
    /\ \E current_user \in UserIds :
         loans' = [loans EXCEPT
                     !.served = @ + 1,
                     !.answer = LoanAnswer("approve_blockchain_loan", current_user, 500,
                                           "Blockchain admin functionality not available")]
    /\ UNCHANGED <<insuranceVars, invoiceVars, creditVars, users, saves>>

\* approve_blockchain_loan with the admin account: current_user is any caller
\* the endpoint authenticated. Whether the transaction is mined and whether
\* the table update succeeds are the environment's; a failed update is passed
\* over.
ApproveBlockchainLoan ==
    /\ loans.served < MaxLoanCalls
    /\ loans.web3 = "admin_account"
    /\ \E current_user \in UserIds, loan_id \in LoanIds,
          tx_mined \in BOOLEAN, row_updated \in BOOLEAN :
         LET answer(status, detail) ==
                 LoanAnswer("approve_blockchain_loan", current_user, status, detail)
             served == [loans EXCEPT !.served = @ + 1]
         IN  IF loans.chain[loan_id] = "approved"
             THEN loans' = [served EXCEPT
                     !.answer = answer(400, "Loan already approved")]
             ELSE IF ~tx_mined
             THEN loans' = [served EXCEPT
                     !.answer = answer(500, "Failed to approve loan")]
             ELSE loans' = [served EXCEPT
                     !.sent = Append(@, SentTransaction("approveLoan", current_user,
                                                        loan_id)),
                     !.chain[loan_id] = "approved",
                     !.rows = IF row_updated
                              THEN MarkApproved(@, loan_id, current_user) ELSE @,
                     !.answer = answer(200, "approved successfully")]
    /\ UNCHANGED <<insuranceVars, invoiceVars, creditVars, users, saves>>

NextLoans ==
    \/ RequestLoanUnavailable
    \/ RequestBlockchainLoan
    \/ ApproveLoanUnavailable
    \/ ApproveBlockchainLoan

SpecLoans == InitLoans /\ [][NextLoans]_vars

\* ---------------------------------------------------------------------------
\* Properties of the loan endpoints, checked under SpecLoans
\* ---------------------------------------------------------------------------

\* the callers that hold the administrator role
Administrators == {Observed}

ApprovedBy(current_user) ==
    \/ \E k \in 1..Len(loans.sent) :
          /\ loans.sent[k].function = "approveLoan"
          /\ loans.sent[k].current_user = current_user
    \/ \E k \in 1..Len(loans.rows) :
          /\ loans.rows[k].approved
          /\ loans.rows[k].approved_by = Num(current_user)

\* C23: approve_blockchain_loan is admin only: a call by a current_user who
\* is not an administrator never submits the approveLoan transaction and
\* never sets approved = True on a blockchain_loans row.
ApprovalIsAdminOnly ==
    \A current_user \in UserIds \ Administrators : ~ApprovedBy(current_user)

\* C27: request_blockchain_loan answers 400 "below minimum requirement" to
\* every request it reads a credit score for, so no requestLoan transaction is
\* sent, no transaction data is prepared and no blockchain_loans row stored.
CreditGateNeverPassed ==
    /\ loans.rows = <<>>
    /\ \A k \in 1..Len(loans.sent) : loans.sent[k].function # "requestLoan"
    /\ loans.answer.endpoint = "request_blockchain_loan"
           => \/ loans.answer.status = 400
                 /\ loans.answer.detail = "below minimum requirement"
              \/ loans.answer.status = 500
                 /\ loans.answer.detail = "Blockchain connection not available"

\* a user with invoices whose request, scored at the top of the scorer's
\* range, was turned away at the credit gate
TopScoreTurnedAway ==
    /\ loans.answer.endpoint = "request_blockchain_loan"
    /\ loans.answer.status = 400
    /\ loans.answer.detail = "below minimum requirement"
    /\ loans.answer.credit_score = FinalWeightedScoreMax \div 100
    /\ loans.web3 = "admin_account"

\* ---------------------------------------------------------------------------
\* Accounts: register_user and login_user of combined_api.py and of
\* combined_api_backup_complex.py
\*
\* users.rows    rows of the users table (email is UNIQUE NOT NULL)
\* users.serial  the last id the table handed out
\* users.answer  what the last call was given and what its caller received
\* ---------------------------------------------------------------------------

Emails == {"asha@example.com", "ravi@example.com"}

Passwords == {"pw-one", "pw-two"}

\* bcrypt.gensalt()
Salts == {"salt-a", "salt-b"}

\* bcrypt.hashpw(password, salt): the hash carries its salt
hash_password(password, salt) == [salt |-> salt, of |-> password]

\* bcrypt.checkpw(password, hashed): hashes password with the salt of hashed
verify_password(password, hashed) == hash_password(password, hashed.salt) = hashed

\* select("*").eq("email", email)
UsersWithEmail(rows, email) == SelectSeq(rows, LAMBDA u : u.email = email)

HTTPException(status_code, detail) ==
    [raised |-> TRUE, status_code |-> status_code, detail |-> detail]

Returned(token) == [raised |-> FALSE, status_code |-> 200, detail |-> token]

\* the try body of register_user up to what it raises or returns, and the
\* rows it leaves; insert is what supabase's insert did
RegisterBody(rows, serial, email, password, salt, insert) ==
    IF UsersWithEmail(rows, email) # <<>>
    THEN [outcome |-> HTTPException(400, "Email already registered"),
          rows |-> rows, serial |-> serial]
    ELSE IF insert = "raises"
    THEN [outcome |-> [raised |-> TRUE, status_code |-> 0, detail |-> "APIError"],
          rows |-> rows, serial |-> serial]
    ELSE IF insert = "no_data"
    THEN [outcome |-> HTTPException(500, "Failed to create user"),
          rows |-> rows, serial |-> serial]
    ELSE [outcome |-> Returned("bearer"),
          rows |-> Append(rows, [id |-> serial + 1, email |-> email,
                                 password_hash |-> hash_password(password, salt)]),
          serial |-> serial + 1]

\* the try body of login_user
LoginBody(rows, email, password) ==
    LET result == UsersWithEmail(rows, email)
    IN  IF result = <<>> THEN HTTPException(401, "Invalid credentials")
        ELSE IF ~verify_password(password, result[1].password_hash)
        THEN HTTPException(401, "Invalid credentials")
        ELSE Returned("bearer")

\* except Exception as e: raise HTTPException(500, f"... failed: {str(e)}"),
\* the only handler of combined_api.py; HTTPException is an Exception
ExceptException(outcome, prefix) ==
    IF outcome.raised THEN HTTPException(500, prefix) ELSE outcome

\* except HTTPException: raise, then except Exception, the handlers of
\* combined_api_backup_complex.py
ExceptHTTPExceptionRaise(outcome, prefix) ==
    IF outcome.raised /\ outcome.status_code = 0
    THEN HTTPException(500, prefix) ELSE outcome

AccountAnswer(file, endpoint, email, password, outcome) ==
    [file |-> file, endpoint |-> endpoint, email |-> email, password |-> password,
     status_code |-> outcome.status_code, detail |-> outcome.detail]

InitAccounts ==
    /\ users = [rows |-> <<>>, serial |-> 0, answer |-> [file |-> "none"]]
    /\ loans = [called |-> FALSE]
    /\ saves = <<>>
    /\ risk = [called |-> FALSE]
    /\ templates = <<>>
    /\ assessments = <<>>
    /\ response = [called |-> FALSE]
    /\ invoices = EmptyTable
    /\ uploads = <<>>
    /\ dashboard = [called |-> FALSE]
    /\ solo = <<>>
    /\ snapshot = [called |-> FALSE]

\* combined_api.py register_user
RegisterUser ==
    /\ \E email \in Emails, password \in Passwords, salt \in Salts,
          insert \in {"data", "no_data", "raises"} :
         LET body == RegisterBody(users.rows, users.serial, email, password, salt, insert)
         IN  users' = [rows |-> body.rows, serial |-> body.serial,
                       answer |-> AccountAnswer("combined_api", "register_user",
                                      email, password,
                                      ExceptException(body.outcome, "Registration failed"))]
    /\ UNCHANGED <<insuranceVars, invoiceVars, creditVars, loans, saves>>

\* combined_api.py login_user
LoginUser ==
    /\ \E email \in Emails, password \in Passwords :
         users' = [users EXCEPT
                     !.answer = AccountAnswer("combined_api", "login_user",
                                    email, password,
                                    ExceptException(LoginBody(users.rows, email, password),
                                                    "Login failed"))]
    /\ UNCHANGED <<insuranceVars, invoiceVars, creditVars, loans, saves>>

\* combined_api_backup_complex.py register_user
BackupComplexRegisterUser ==
    /\ \E email \in Emails, password \in Passwords, salt \in Salts,
          insert \in {"data", "no_data", "raises"} :
         LET body == RegisterBody(users.rows, users.serial, email, password, salt, insert)
         IN  users' = [rows |-> body.rows, serial |-> body.serial,
                       answer |-> AccountAnswer("combined_api_backup_complex",
                                      "register_user", email, password,
                                      ExceptHTTPExceptionRaise(body.outcome,
                                                               "Registration failed"))]
    /\ UNCHANGED <<insuranceVars, invoiceVars, creditVars, loans, saves>>

\* combined_api_backup_complex.py login_user
BackupComplexLoginUser ==
    /\ \E email \in Emails, password \in Passwords :
         users' = [users EXCEPT
                     !.answer = AccountAnswer("combined_api_backup_complex", "login_user",
                                    email, password,
                                    ExceptHTTPExceptionRaise(
                                        LoginBody(users.rows, email, password),
                                        "Login failed"))]
    /\ UNCHANGED <<insuranceVars, invoiceVars, creditVars, loans, saves>>

NextAccounts ==
    \/ RegisterUser
    \/ LoginUser
    \/ BackupComplexRegisterUser
    \/ BackupComplexLoginUser

SpecAccounts == InitAccounts /\ [][NextAccounts]_vars

\* ---------------------------------------------------------------------------
\* Properties of register_user and login_user, checked under SpecAccounts
\* ---------------------------------------------------------------------------

\* the call that has just been answered was a registration of an email the
\* table already held
RegisteredAgain(file) ==
    /\ users'.answer.file = file
    /\ users'.answer.endpoint = "register_user"
    /\ UsersWithEmail(users.rows, users'.answer.email) # <<>>

\* the call that has just been answered was a login with an email the table
\* does not hold or with a password that is not the stored one
BadLogin(file) ==
    /\ users'.answer.file = file
    /\ users'.answer.endpoint = "login_user"
    /\ \A k \in 1..Len(users.rows) :
          \/ users.rows[k].email # users'.answer.email
          \/ ~verify_password(users'.answer.password, users.rows[k].password_hash)

StatusReachesCaller(file) ==
    /\ RegisteredAgain(file)
         => /\ users'.answer.status_code = 400
            /\ users'.answer.detail = "Email already registered"
            /\ users'.rows = users.rows
    /\ BadLogin(file) => users'.answer.status_code = 401

\* C28: in combined_api.py registering an email already present in users is
\* answered 400 "Email already registered" and leaves the users table
\* unchanged, and a login with an unknown email or a wrong password is
\* answered 401; neither reaches the caller as a 500.
ErrorStatusReachesCaller == [][StatusReachesCaller("combined_api")]_vars

\* the same for the handlers of combined_api_backup_complex.py
BackupComplexErrorStatusReachesCaller ==
    [][StatusReachesCaller("combined_api_backup_complex")]_vars

\* ---------------------------------------------------------------------------
\* Concurrent calls that persist a risk assessment: insurance_assess of
\* combined_api.py and combined_api_backup_complex.py, submit_risk_assessment
\* of insurance_hub_enhanced.py.  Each call sends the update and the insert as
\* two requests to the shared table.  A handler awaits nothing between the
\* two, so the event loop of one server runs them back to back; the servers
\* are separate processes and are not ordered against each other.
\*
\* saves.rows    rows of business_risk_assessments, in insertion order
\* saves.calls   per call: its handler, its user, where it stands, its answer
\* ---------------------------------------------------------------------------

MaxSaves == 2

AssessHandlers == {"combined_api", "combined_api_backup_complex"}

SaveHandlers == AssessHandlers \cup {"insurance_hub_enhanced"}

\* update({'is_current': False}).eq('user_id', current_user)
MarkAllPrevious(rows, u) ==
    [i \in DOMAIN rows |->
        IF rows[i].user_id = u THEN [rows[i] EXCEPT !.is_current = FALSE]
        ELSE rows[i]]

\* the event loop of the handler's server is not inside another call's
\* update and insert
LoopFree(handler) ==
    \A d \in 1..MaxSaves :
        saves.calls[d].handler = handler => saves.calls[d].at # "marked"

\* the inserted row, as far as is_current is concerned
SavedRow(rows, u) ==
    [assessment_id |-> Len(rows) + 1, user_id |-> u, is_current |-> TRUE]

InitSaves ==
    /\ saves \in [rows : {<<>>},
                  calls : [1..MaxSaves -> [handler : SaveHandlers, user_id : UserIds,
                                           at : {"called"}, assessment_id : {NoneVal}]]]
    /\ loans = [called |-> FALSE]
    /\ users = <<>>
    /\ risk = [called |-> FALSE]
    /\ templates = <<>>
    /\ assessments = <<>>
    /\ response = [called |-> FALSE]
    /\ invoices = EmptyTable
    /\ uploads = <<>>
    /\ dashboard = [called |-> FALSE]
    /\ solo = <<>>
    /\ snapshot = [called |-> FALSE]

\* insurance_assess, the update of the persist block; when it raises the
\* block is left and the call answers without an assessment id
InsuranceAssessMarkPrevious ==
    /\ \E c \in 1..MaxSaves, raised \in BOOLEAN :
         /\ saves.calls[c].handler \in AssessHandlers
         /\ saves.calls[c].at = "called"
         /\ LoopFree(saves.calls[c].handler)
         /\ saves' = IF raised
                     THEN [saves EXCEPT !.calls[c].at = "answered"]
                     ELSE [saves EXCEPT
                             !.rows = MarkPrevious(@, saves.calls[c].user_id),
                             !.calls[c].at = "marked"]
    /\ UNCHANGED <<insuranceVars, invoiceVars, creditVars, loans, users>>

\* insurance_assess, the insert of the persist block and the answer
InsuranceAssessInsert ==
    /\ \E c \in 1..MaxSaves, raised \in BOOLEAN :
         /\ saves.calls[c].handler \in AssessHandlers
         /\ saves.calls[c].at = "marked"
         /\ saves' = IF raised
                     THEN [saves EXCEPT !.calls[c].at = "answered"]
                     ELSE [saves EXCEPT
                             !.rows = Append(@, SavedRow(@, saves.calls[c].user_id)),
                             !.calls[c].at = "answered",
                             !.calls[c].assessment_id = Num(Len(saves.rows) + 1)]
    /\ UNCHANGED <<insuranceVars, invoiceVars, creditVars, loans, users>>

\* submit_risk_assessment up to its update; an exception answers 500
SubmitRiskAssessmentMarkPrevious ==
    /\ \E c \in 1..MaxSaves, raised \in BOOLEAN :
         /\ saves.calls[c].handler = "insurance_hub_enhanced"
         /\ saves.calls[c].at = "called"
         /\ LoopFree(saves.calls[c].handler)
         /\ saves' = IF raised
                     THEN [saves EXCEPT !.calls[c].at = "failed"]
                     ELSE [saves EXCEPT
                             !.rows = MarkAllPrevious(@, saves.calls[c].user_id),
                             !.calls[c].at = "marked"]
    /\ UNCHANGED <<insuranceVars, invoiceVars, creditVars, loans, users>>

\* submit_risk_assessment, its insert and its answer
SubmitRiskAssessmentInsert ==
    /\ \E c \in 1..MaxSaves, raised \in BOOLEAN :
         /\ saves.calls[c].handler = "insurance_hub_enhanced"
         /\ saves.calls[c].at = "marked"
         /\ saves' = IF raised
                     THEN [saves EXCEPT !.calls[c].at = "failed"]
                     ELSE [saves EXCEPT
                             !.rows = Append(@, SavedRow(@, saves.calls[c].user_id)),
                             !.calls[c].at = "answered",
                             !.calls[c].assessment_id = Num(Len(saves.rows) + 1)]
    /\ UNCHANGED <<insuranceVars, invoiceVars, creditVars, loans, users>>

NextSaves ==
    \/ InsuranceAssessMarkPrevious
    \/ InsuranceAssessInsert
    \/ SubmitRiskAssessmentMarkPrevious
    \/ SubmitRiskAssessmentInsert

SpecSaves == InitSaves /\ [][NextSaves]_vars

\* ---------------------------------------------------------------------------
\* Properties of the is_current flag, checked under SpecSaves
\* ---------------------------------------------------------------------------

CurrentRowsOf(u) ==
    {k \in 1..Len(saves.rows) : saves.rows[k].user_id = u /\ saves.rows[k].is_current}

RowsOf(u) == {k \in 1..Len(saves.rows) : saves.rows[k].user_id = u}

\* every call of the user has answered, one of them with a row it inserted
CallsCompleted(u) ==
    /\ \A c \in 1..MaxSaves :
          saves.calls[c].user_id = u => saves.calls[c].at \in {"answered", "failed"}
    /\ \E c \in 1..MaxSaves :
          saves.calls[c].user_id = u /\ saves.calls[c].assessment_id # NoneVal

\* C26: for each user, in every state reachable through insurance_assess and
\* submit_risk_assessment calls, interleaved or not, at most one
\* business_risk_assessments row of the user has is_current = True, and once
\* the user's calls have completed it is the most recently inserted one.
AtMostOneCurrentAssessment ==
    \A u \in UserIds :
        /\ Cardinality(CurrentRowsOf(u)) <= 1
        /\ CallsCompleted(u)
              => \A k \in CurrentRowsOf(u) : \A j \in RowsOf(u) : j <= k
====
